---- MODULE Spec2Model ----
(***************************************************************************)
(* Model of the area store and the instance-buffer synchroniser of stgi   *)
(* (src/src/lib.rs): add_area, area_mut, area, remove_area, clear and the  *)
(* sync pass update_dirty_areas that render runs once per frame; of the    *)
(* cursor-picking pipeline (update_cursor_position, render, the host's     *)
(* submit, post_render_work and the mapping callback); and of the sprite   *)
(* and font registry (src/src/builder.rs, and add_sprite in lib.rs); and  *)
(* of the glyph atlas of the text renderer (src/src/text.rs).              *)
(*                                                                         *)
(* A Rust panic (unwrap on None, index out of bounds, checked_add          *)
(* overflow) ends the program: the model records the failing call in       *)
(* `panicked`, keeps the rest of the state as it was before that call, and *)
(* enables no further operation.                                           *)
(* The bytes written with queue.write_buffer mirror `staging` and are      *)
(* never read back by the CPU side; the model keeps `staging` only.        *)
(***************************************************************************)
EXTENDS Integers, Sequences, FiniteSets, TLC

\* ---------------------------------------------------------------- bounds
\* At most this many add_area calls in one behaviour.
MaxIssued == 3
\* At most this many pending entries in areas_to_remove.
MaxQueue == 1

\* The ids the pick channel holds at most (post_render_work calls whose ids
\* no render call has received yet).
MaxChannel == 2

\* The areas of the runs that follow the picking pipeline.
MaxCursorAreas == 2

\* At most this many pending entries in areas_to_remove in the runs that
\* repeat remove_area.
MaxPending == 2

\* At most this many registration calls (sprites and fonts) in one behaviour.
MaxRegistrations == 3

\* At most this many glyphs are cached.
MaxGlyphs == 3

\* At most this many areas are shown with the sprites of a run.
MaxRunAreas == 2

\* At most this many areas are passed to one TextRenderer::update.
MaxTextAreas == 2

\* ------------------------------------------------------- Option<T> values
None == << >>
Some(x) == << x >>
IsSome(o) == o # None
Unwrap(o) == o[1]

\* ------------------------------------------------- NonZeroU32 handle ids
\* A u32 is kept as two 16-bit limbs <<high, low>>, so that the whole
\* 32-bit range, and the overflow of checked_add at u32::MAX, are exact.
Limb == 2^16

U32Max == << Limb - 1, Limb - 1 >>

\* NonZeroU32::new(1)
FirstId == << 0, 1 >>

\* The id 0, which no handle carries.
ZeroId == << 0, 0 >>

\* Ord for UiAreaHandle (derived from the id).
HandleLt(a, b) == a[1] < b[1] \/ (a[1] = b[1] /\ a[2] < b[2])

\* NonZeroU32::checked_add(1): None on overflow.
checked_add_wrapping(id) ==
    IF id = U32Max THEN Some(FirstId)
    ELSE IF id[2] = Limb - 1 THEN Some(<< id[1] + 1, 0 >>)
    ELSE Some(<< id[1], id[2] + 1 >>)

checked_add(id) ==
    IF id = U32Max THEN None
    ELSE IF id[2] = Limb - 1 THEN Some(<< id[1] + 1, 0 >>)
    ELSE Some(<< id[1], id[2] + 1 >>)

\* ------------------------------------------------------------- ZOrder
ZOrder == << "First", "Second", "Third", "Fourth" >>

to_usize(z) ==
    CASE z = "First" -> 0
      [] z = "Second" -> 1
      [] z = "Third" -> 2
      [] z = "Fourth" -> 3


\* ------------------------------------------------------------ sprites
\* The registered sprites after two add_sprite calls on a device whose
\* maximum texture dimension is 512: "X" fills most of atlas 0, "W" does
\* not fit beside it, atlas 0 cannot double, so "W" lives in atlas 1.
AtlasSize == 512

stored_sprites ==
    [ X |-> [ width |-> 400, height |-> 400, atlas_index |-> 0,
              allocation |-> [ min_x |-> 0, min_y |-> 0 ] ],
      W |-> [ width |-> 300, height |-> 200, atlas_index |-> 1,
              allocation |-> [ min_x |-> 0, min_y |-> 0 ] ] ]

SpriteIds == DOMAIN stored_sprites

\* self.atlases.len()
NumAtlases == Cardinality({ stored_sprites[s].atlas_index : s \in SpriteIds })

UiArea(rect, z, sprite) == [ rect |-> rect, z |-> z, sprite |-> sprite ]

\* The UiArea values the host passes in, to add_area and through area_mut:
\* one area, and the same area with another z-level and with another
\* rectangle (x_min, x_max, y_min, y_max).
AreaInputs ==
    { UiArea(<< 0, 64, 0, 64 >>, "First", "X"),
      UiArea(<< 0, 64, 0, 64 >>, "Second", "X"),
      UiArea(<< 10, 74, 20, 84 >>, "First", "X") }

\* The inputs of the runs that move areas between atlas layers: one area,
\* and the same area with the sprite that lives in the other atlas layer.
AtlasAreaInputs ==
    { UiArea(<< 0, 64, 0, 64 >>, "First", "X"),
      UiArea(<< 0, 64, 0, 64 >>, "First", "W") }

\* size_of::<Vertex>() = 2*4 + 2*4 + 4 bytes.
VertexBytes == 20

\* 4 * size_of::<Vertex>(): the bytes of one slot.
QuadBytes == 4 * VertexBytes

\* A texture coordinate n / atlas_size, kept as the pair <<n, atlas_size>>.
Tex(n, atlas_size) == << n, atlas_size >>

\* The four vertices update_dirty_areas builds for an area.
vertices_of(s, sz, a, handle) ==
    LET u0 == Tex(s.allocation.min_x + 1, sz)
        v0 == Tex(s.allocation.min_y + 1, sz)
        u1 == Tex(s.allocation.min_x + s.width + 1, sz)
        v1 == Tex(s.allocation.min_y + s.height + 1, sz)
    IN  << [ pos |-> << a.rect[1], a.rect[3] >>, tex |-> << u0, v0 >>, id |-> handle ],
           [ pos |-> << a.rect[1], a.rect[4] >>, tex |-> << u0, v1 >>, id |-> handle ],
           [ pos |-> << a.rect[2], a.rect[3] >>, tex |-> << u1, v0 >>, id |-> handle ],
           [ pos |-> << a.rect[2], a.rect[4] >>, tex |-> << u1, v1 >>, id |-> handle ] >>

vertices(a, handle) == vertices_of(stored_sprites[a.sprite], AtlasSize, a, handle)

\* --------------------------------------------------------------- state
VARIABLES
    ui_areas,         \* Vec (per z at insertion) of HashMap handle -> InternalUiArea
    vertex_buffers,   \* Vec (per z) of Vec (per atlas) of Option<VertexBuffer>
    dirty_areas,      \* Vec<UiAreaHandle>, kept sorted
    areas_to_remove,  \* Vec<UiAreaHandle>
    next_id,          \* NonZeroU32
    panicked,         \* "no", or the call whose panic has ended the program
    issued,           \* history: the handles add_area has returned, in call order
    index_buffer_cpu  \* Vec<u32>, as the ranges of quads pushed to it

vars == << ui_areas, vertex_buffers, dirty_areas, areas_to_remove, next_id,
           panicked, issued, index_buffer_cpu >>

\* The cursor-picking fields of Stgi, the GPU and driver side of the picking
\* pipeline, and what the host holds.
VARIABLES
    cursor_moved,               \* bool
    cursor_pos_uniform,         \* [u32; 2], the last position the host passed
    cursor_pos_uniform_buffer,  \* the pointer position in the GPU uniform buffer
    cursor_picking_result,      \* Option<UiAreaHandle>
    cursor_uploaded,            \* history: the last render call wrote the uniform buffer
    channel,                    \* the ids sent and not yet received, oldest first
    map_pending,                \* map_async was called and its callback has not run
    staging_buffer,             \* the id in cursor_picking_result_staging_buffer
    command_buffer,             \* host: the CommandBuffer render returned, not yet submitted
    picked_by_frame,            \* history: the id the last frame's commands pick
    frame_phase                 \* host: the next call of its frame loop

cursor_vars == << cursor_moved, cursor_pos_uniform, cursor_pos_uniform_buffer,
                  cursor_picking_result, cursor_uploaded >>

gpu_vars == << channel, map_pending, staging_buffer >>

host_vars == << command_buffer, picked_by_frame, frame_phase >>

\* The sprite and font registry: the builder (src/src/builder.rs), the device
\* it builds for, and the sprite store of the incremental path (add_sprite in
\* src/src/lib.rs), the latter in two independent runs of the program that
\* are given the same calls.
VARIABLES
    fonts,                      \* builder: HashMap<F, Font>
    present_ids,                \* builder: HashSet<S>
    sprites,                    \* builder: HashMap<S, LoadedSprite>
    sprite_areas,               \* builder: Vec<(u32, S)>
    build_result,               \* what build has made: Option of allocators, rectangles, tables
    builder_panicked,           \* "no", or the builder call whose panic has ended the program
    max_texture_dimension_2d,   \* device.limits().max_texture_dimension_2d
    stgi_runs,                  \* per run: atlases, stored_sprites, vertex_buffers, panicked
    registrations,              \* history: the registration calls made, in call order
    text_renderer,              \* Option of the TextRenderer build creates: fonts, atlas_allocators, rasterized_glyphs
    text_panicked,              \* "no", or the TextRenderer call whose panic has ended the program
    run_areas                   \* per run: ui_areas, dirty_areas, next_id and index_buffer_cpu of the Stgi

asset_vars == << fonts, present_ids, sprites, sprite_areas, build_result,
                 builder_panicked, max_texture_dimension_2d, stgi_runs,
                 registrations, text_renderer, text_panicked, run_areas >>

all_vars == << vars, cursor_vars, gpu_vars, host_vars, asset_vars >>

Running == panicked = "no"

\* ------------------------------------------------------------ HashMap
EmptyMap == << >>

MapInsert(m, k, v) == [ x \in DOMAIN m \cup { k } |-> IF x = k THEN v ELSE m[x] ]

MapRemove(m, k) == [ x \in DOMAIN m \ { k } |-> m[x] ]

\* `for areas in &self.ui_areas { if let Some(..) = areas.get(&handle) ...`:
\* the index (1-based) of the first map that holds the handle, 0 if none does.
find_map(ua, handle) ==
    IF \E i \in 1..Len(ua) : handle \in DOMAIN ua[i]
    THEN CHOOSE i \in 1..Len(ua) :
            /\ handle \in DOMAIN ua[i]
            /\ \A j \in 1..(i - 1) : handle \notin DOMAIN ua[j]
    ELSE 0

\* ---------------------------------------------------------------- Vec
\* Vec::swap_remove(index) for an index in bounds (0-based).
swap_remove_without_pop(v, index) == [ v EXCEPT ![index + 1] = v[Len(v)] ]

swap_remove(v, index) ==
    LET n == Len(v)
    IN  IF index = n - 1 THEN SubSeq(v, 1, n - 1)
        ELSE SubSeq([ v EXCEPT ![index + 1] = v[n] ], 1, n - 1)

\* Vec::binary_search on the sorted dirty list: the insertion index (0-based)
\* of a handle that is not in it.
binary_search_err(v, handle) ==
    Cardinality({ i \in 1..Len(v) : HandleLt(v[i], handle) })

\* Vec::insert(index, x) (0-based index).
vec_insert(v, index, x) ==
    SubSeq(v, 1, index) \o << x >> \o SubSeq(v, index + 1, Len(v))

Contains(v, x) == \E i \in 1..Len(v) : v[i] = x

\* dirty_areas after `match binary_search { Err(i) => insert(i, h), Ok(_) => {} }`.
mark_dirty_never(dirty, handle) == dirty

mark_dirty_front(dirty, handle) ==
    IF Contains(dirty, handle) THEN dirty ELSE << handle >> \o dirty

mark_dirty_push(dirty, handle) == Append(dirty, handle)

mark_dirty(dirty, handle) ==
    IF Contains(dirty, handle) THEN dirty
    ELSE vec_insert(dirty, binary_search_err(dirty, handle), handle)

\* ------------------------------------------------- update_dirty_areas
\* The sync pass works on the record [ua, vb, ib, sprites, atlases, err]:
\* ui_areas, vertex_buffers, index_buffer_cpu, stored_sprites, the atlases
\* (their sizes) and whether a panic has happened. After a panic nothing more
\* is done.
Panic(st) == [ st EXCEPT !.err = TRUE ]

set_offset(ua, zi, handle, off) ==
    [ ua EXCEPT ![zi] = [ @ EXCEPT ![handle] = [ @ EXCEPT !.buffer_offset = off ] ] ]

\* First loop body: one drained entry of areas_to_remove.
remove_one(st, to_remove) ==
    LET zi == find_map(st.ua, to_remove)
    IN  IF st.err \/ zi = 0 THEN st
        ELSE
        LET internal_area == st.ua[zi][to_remove]
            ua1 == [ st.ua EXCEPT ![zi] = MapRemove(@, to_remove) ]
        IN  IF ~IsSome(internal_area.buffer_offset)
            THEN [ st EXCEPT !.ua = ua1 ]
            ELSE
            LET buffer_offset == Unwrap(internal_area.buffer_offset)
                z == to_usize(internal_area.area.z) + 1
                ai == st.sprites[internal_area.area.sprite].atlas_index + 1
                slot == st.vb[z][ai]
            IN  IF ~IsSome(slot) THEN Panic(st)              \* .as_mut().unwrap()
                ELSE
                LET buffer == Unwrap(slot)
                    index == buffer_offset \div QuadBytes
                    n == Len(buffer.order)
                IN  IF n > 1
                    THEN IF index # n - 1
                         THEN IF index >= n THEN Panic(st)   \* swap_remove out of bounds
                              ELSE
                              LET order1 == swap_remove(buffer.order, index)
                                  staging1 == swap_remove(buffer.staging, index)
                                  swapped_area_handle == order1[index + 1]
                              IN  IF swapped_area_handle \notin DOMAIN ua1[z]
                                  THEN Panic(st)             \* get_mut(..).unwrap()
                                  ELSE [ st EXCEPT
                                           !.ua = set_offset(ua1, z, swapped_area_handle,
                                                             Some(buffer_offset)),
                                           !.vb[z][ai] = Some([ buffer EXCEPT
                                               !.order = order1,
                                               !.staging = staging1,
                                               !.size = @ - QuadBytes ]) ]
                         ELSE [ st EXCEPT
                                  !.ua = ua1,
                                  !.vb[z][ai] = Some([ buffer EXCEPT
                                      !.order = SubSeq(@, 1, n - 1),
                                      !.staging = SubSeq(@, 1, n - 1),
                                      !.size = @ - QuadBytes ]) ]
                    ELSE [ st EXCEPT !.ua = ua1, !.vb[z][ai] = None ]

\* `if area.old_z != area.area.z { if let Some(old_buffer_offset) = .. { .. } }`
relocate(st, handle, zi) ==
    LET area == st.ua[zi][handle]
        old_buffer_offset == Unwrap(area.buffer_offset)
        old_z == to_usize(area.old_z) + 1
        atlas_index == st.sprites[area.area.sprite].atlas_index + 1
        slot == st.vb[old_z][atlas_index]
    IN  IF ~IsSome(slot) THEN Panic(st)                      \* .as_mut().unwrap()
        ELSE
        LET old_buffer == Unwrap(slot)
            index == old_buffer_offset \div QuadBytes
            n == Len(old_buffer.order)
        IN  IF index >= n THEN Panic(st)                     \* swap_remove out of bounds
            ELSE
            LET order1 == swap_remove(old_buffer.order, index)
                staging1 == swap_remove(old_buffer.staging, index)
            IN  IF index >= Len(order1) THEN Panic(st)       \* old_buffer.order[index]
                ELSE
                LET swapped_area_handle == order1[index + 1]
                    ua1 == set_offset(st.ua, zi, handle, None)
                IN  IF swapped_area_handle \notin DOMAIN ua1[old_z]
                    THEN Panic(st)                           \* get_mut(..).unwrap()
                    ELSE [ st EXCEPT
                             !.ua = set_offset(ua1, old_z, swapped_area_handle,
                                               Some(old_buffer_offset)),
                             !.vb[old_z][atlas_index] = Some([ old_buffer EXCEPT
                                 !.order = order1,
                                 !.staging = staging1,
                                 !.size = @ - QuadBytes ]) ]

\* The VertexBuffer get_or_insert_with creates.
new_vertex_buffer_without_capacity ==
    [ capacity |-> 0, size |-> 0, staging |-> << >>, order |-> << >> ]

new_vertex_buffer ==
    [ capacity |-> QuadBytes, size |-> 0, staging |-> << >>, order |-> << >> ]

\* The primitive restart index 0xFFFFFFFF, as the i32 with the same bits.
RestartIndex == -1

\* `for i in from..to { push(i * 4); .. push(0xFFFFFFFF) }`: the five
\* indices of each quad from `from` to `to - 1`.
quad_indices(from, to) ==
    [ k \in 1..(5 * (to - from)) |->
        LET i == from + (k - 1) \div 5
        IN  CASE (k - 1) % 5 = 0 -> i * 4
              [] (k - 1) % 5 = 1 -> i * 4 + 1
              [] (k - 1) % 5 = 2 -> i * 4 + 2
              [] (k - 1) % 5 = 3 -> i * 4 + 3
              [] OTHER -> RestartIndex ]

\* `for i in 0..100` of Stgi::new: the quads the index buffer starts with.
InitialQuads == 100

\* index_buffer_cpu is kept as the ranges <<from, to>> of the loops that
\* have pushed to it, in order; the Vec<u32> is what these loops pushed.
RECURSIVE index_values(_)
index_values(ib) ==
    IF ib = << >> THEN << >>
    ELSE index_values(SubSeq(ib, 1, Len(ib) - 1))
         \o quad_indices(ib[Len(ib)][1], ib[Len(ib)][2])

\* self.index_buffer_cpu.len().
RECURSIVE index_len(_)
index_len(ib) ==
    IF ib = << >> THEN 0
    ELSE index_len(SubSeq(ib, 1, Len(ib) - 1))
         + (IF ib[Len(ib)][2] > ib[Len(ib)][1]
            THEN 5 * (ib[Len(ib)][2] - ib[Len(ib)][1]) ELSE 0)

\* The index buffer Stgi::new creates (lib.rs 273-280).
new_index_buffer == << << 0, InitialQuads >> >>

\* An extension that numbers the added quads from 0 again.
extend_index_buffer_from_zero(ib) ==
    Append(ib, << 0, index_len(ib) \div 5 >>)

\* "Index buffer is full": the CPU copy is extended to twice its quads
\* (lib.rs 1158-1170); the range of the loop is fixed before its first push.
extend_index_buffer(ib) ==
    LET old_len == index_len(ib)
    IN  Append(ib, << old_len \div 5, (index_len(ib) \div 5) * 2 >>)

\* "Update the area's vertices": overwrite the slot in place, or append one.
write_or_append(st, handle, zi) ==
    LET area == st.ua[zi][handle]
        stored_sprite == st.sprites[area.area.sprite]
        atlas_size == st.atlases[stored_sprite.atlas_index + 1].size
        quad == vertices_of(stored_sprite, atlas_size, area.area, handle)
        z == to_usize(area.area.z) + 1
        atlas_index == stored_sprite.atlas_index + 1
        slot == st.vb[z][atlas_index]
    IN  IF IsSome(area.buffer_offset)
        THEN IF ~IsSome(slot) THEN Panic(st)                 \* .as_mut().unwrap()
             ELSE
             LET buffer == Unwrap(slot)
                 index == Unwrap(area.buffer_offset) \div QuadBytes
             IN  IF index >= Len(buffer.staging) THEN Panic(st)   \* staging[index]
                 ELSE [ st EXCEPT !.vb[z][atlas_index] =
                          Some([ buffer EXCEPT !.staging[index + 1] = quad ]) ]
        ELSE
        LET buffer == IF IsSome(slot) THEN Unwrap(slot) ELSE new_vertex_buffer
            grown == buffer.size + QuadBytes > buffer.capacity
        IN  [ st EXCEPT
                !.ua = set_offset(st.ua, zi, handle, Some(buffer.size)),
                !.vb[z][atlas_index] = Some([ buffer EXCEPT
                    !.staging = Append(@, quad),
                    !.order = Append(@, handle),
                    !.capacity = IF grown THEN @ * 2 ELSE @,
                    !.size = @ + QuadBytes ]),
                !.ib = IF (Len(buffer.staging) + 1) * 5 > index_len(@)
                       THEN extend_index_buffer(@) ELSE @ ]

\* Second loop body: one drained entry of dirty_areas.
sync_one(st, handle) ==
    LET zi == find_map(st.ua, handle)
    IN  IF st.err \/ zi = 0 THEN st
        ELSE
        LET area == st.ua[zi][handle]
            st1 == IF area.old_z # area.area.z /\ IsSome(area.buffer_offset)
                   THEN relocate(st, handle, zi)
                   ELSE st
        IN  IF st1.err THEN st1 ELSE write_or_append(st1, handle, zi)

RECURSIVE remove_all(_, _)
remove_all(st, queue) ==
    IF queue = << >> THEN st
    ELSE remove_all(remove_one(st, Head(queue)), Tail(queue))

RECURSIVE sync_all(_, _)
sync_all(st, dirty) ==
    IF dirty = << >> THEN st
    ELSE sync_all(sync_one(st, Head(dirty)), Tail(dirty))

\* update_dirty_areas: all removals, then all dirty handles.
update_dirty_areas_from(ua, vb, ib, queue, dirty) ==
    sync_all(remove_all([ ua |-> ua, vb |-> vb, ib |-> ib, sprites |-> stored_sprites,
                          atlases |-> [ i \in 1..NumAtlases |-> [ size |-> AtlasSize ] ],
                          err |-> FALSE ],
                        queue),
             dirty)

update_dirty_areas(ua, vb, queue, dirty) ==
    update_dirty_areas_from(ua, vb, index_buffer_cpu, queue, dirty)

\* ------------------------------------------------------------ picking
\* The image of a sprite (the host's input): the alpha of texel (tx, ty).
\* "X" is transparent in its left quarter and opaque elsewhere, "W" is opaque.
image_alpha(sprite, tx, ty) ==
    IF sprite = "X" /\ tx < 100 THEN 0 ELSE 255

\* The alpha of texel (x, y) of atlas layer ai: add_sprite writes the image
\* at allocation.min + 1, the rest of the texture is transparent.
atlas_alpha(ai, x, y) ==
    LET here == { s \in SpriteIds :
                    /\ stored_sprites[s].atlas_index = ai
                    /\ x - (stored_sprites[s].allocation.min_x + 1) \in 0..(stored_sprites[s].width - 1)
                    /\ y - (stored_sprites[s].allocation.min_y + 1) \in 0..(stored_sprites[s].height - 1) }
    IN  IF here = { } THEN 0
        ELSE LET s == CHOOSE s \in here : TRUE
             IN  image_alpha(s, x - (stored_sprites[s].allocation.min_x + 1),
                                y - (stored_sprites[s].allocation.min_y + 1))

\* Fragments whose sampled alpha is below the threshold are discarded.
AlphaThreshold == 128

\* The picking fragment shader on one quad at pixel pos = <<px, py>>: the
\* quad's id where the quad covers the pixel and the atlas texel under it is
\* opaque, 0 (nothing written) otherwise.
fragment_id(quad, ai, pos) ==
    LET x0 == quad[1].pos[1]
        y0 == quad[1].pos[2]
        x1 == quad[4].pos[1]
        y1 == quad[4].pos[2]
        u0 == quad[1].tex[1][1]
        v0 == quad[1].tex[2][1]
        u1 == quad[4].tex[1][1]
        v1 == quad[4].tex[2][1]
    IN  IF /\ x0 <= pos[1] /\ pos[1] < x1
           /\ y0 <= pos[2] /\ pos[2] < y1
           /\ atlas_alpha(ai,
                  u0 + ((2 * (pos[1] - x0) + 1) * (u1 - u0)) \div (2 * (x1 - x0)),
                  v0 + ((2 * (pos[2] - y0) + 1) * (v1 - v0)) \div (2 * (y1 - y0)))
                >= AlphaThreshold
        THEN quad[1].id
        ELSE ZeroId

\* draw_indexed(0..staging.len() * 5): the quads of one buffer, in slot
\* order, each with the atlas layer bound for it.
buffer_draws(buffer, atlas_index) ==
    IF IsSome(buffer)
    THEN [ i \in 1..Len(Unwrap(buffer).staging) |->
             [ atlas |-> atlas_index, quad |-> Unwrap(buffer).staging[i] ] ]
    ELSE << >>

\* The draws of the visible pass: `for buffers in self.vertex_buffers.iter()`,
\* `for (atlas_index, buffer) in buffers.iter().enumerate()`.
RECURSIVE render_pass_draws_from(_, _, _)
render_pass_draws_from(vb, z, ai) ==
    IF z > Len(vb) THEN << >>
    ELSE IF ai > Len(vb[z]) THEN render_pass_draws_from(vb, z + 1, 1)
    ELSE buffer_draws(vb[z][ai], ai - 1) \o render_pass_draws_from(vb, z, ai + 1)

render_pass_draws(vb) == render_pass_draws_from(vb, 1, 1)

\* The draws of the picking pass (the second pair of loops of render).
RECURSIVE picker_pass_draws_from(_, _, _)
picker_pass_draws_from(vb, z, ai) ==
    IF z > Len(vb) THEN << >>
    ELSE IF ai > Len(vb[z]) THEN picker_pass_draws_from(vb, z + 1, 1)
    ELSE buffer_draws(vb[z][ai], ai - 1) \o picker_pass_draws_from(vb, z, ai + 1)

picker_pass_draws(vb) == picker_pass_draws_from(vb, 1, 1)

\* The picking target at pixel pos after the draws: no blending and no depth
\* buffer, so the last fragment written stays; cleared to 0.
RECURSIVE cursor_picking_texture(_, _)
cursor_picking_texture(draws, pos) ==
    IF draws = << >> THEN ZeroId
    ELSE LET last == draws[Len(draws)]
             f == fragment_id(last.quad, last.atlas, pos)
         IN  IF f # ZeroId THEN f
             ELSE cursor_picking_texture(SubSeq(draws, 1, Len(draws) - 1), pos)

\* The id the compute pass writes to the result buffer: the picking target
\* read at the pointer position of the uniform buffer.
picked_id(vb, pos) == cursor_picking_texture(picker_pass_draws(vb), pos)

\* ------------------------------------------------------------- Stgi::new
\* The program starts with next_id = 1. A second start stands for a program
\* that has issued all but the last three ids and has then been cleared: its
\* areas, buffers and queues are empty again, so only next_id differs.
NearMaxId == << Limb - 1, Limb - 3 >>

StartIds == { FirstId, NearMaxId }

\* --------------------------------------------------- atlas allocators
\* The rectangle packers of the etagere and guillotiere crates, as a first-fit
\* shelf packer: rectangles never overlap, lie inside the allocator's size,
\* and an empty allocator places whatever fits its size.
Min(a, b) == IF a <= b THEN a ELSE b

Max(a, b) == IF a >= b THEN a ELSE b

Rectangle(x, y, w, h) == [ min_x |-> x, min_y |-> y, max_x |-> x + w, max_y |-> y + h ]

\* AtlasAllocator::new(size2(size, size)), SimpleAtlasAllocator::new.
new_allocator(size) == [ size |-> size, shelves |-> << >> ]

shelves_end(a) ==
    IF a.shelves = << >> THEN 0
    ELSE a.shelves[Len(a.shelves)].y + a.shelves[Len(a.shelves)].height

\* allocate(size2(w, h)): None, or the allocator afterwards and the rectangle.
allocate(a, w, h) ==
    LET fit == { i \in 1..Len(a.shelves) :
                    a.shelves[i].height >= h /\ a.shelves[i].x + w <= a.size }
    IN  IF fit # { }
        THEN LET i == CHOOSE i \in fit : \A j \in fit : i <= j
                 shelf == a.shelves[i]
             IN  Some([ allocator |-> [ a EXCEPT !.shelves[i].x = shelf.x + w ],
                        rectangle |-> Rectangle(shelf.x, shelf.y, w, h) ])
        ELSE IF w <= a.size /\ shelves_end(a) + h <= a.size
        THEN Some([ allocator |->
                        [ a EXCEPT !.shelves =
                            Append(@, [ y |-> shelves_end(a), height |-> h, x |-> w ]) ],
                    rectangle |-> Rectangle(0, shelves_end(a), w, h) ])
        ELSE None

\* SimpleAtlasAllocator::grow(size2(new_size, new_size)).
grow(a, new_size) == [ a EXCEPT !.size = new_size ]

\* ----------------------------------------------------- builder packing
\* An image: its dimensions, and what it shows.
Image(w, h, d) == [ width |-> w, height |-> h, data |-> d ]

Inanimate(sprite) == [ kind |-> "Inanimate", sprite |-> sprite ]

Animated(sprite_sheet, sprite_width) ==
    [ kind |-> "Animated", sprite_sheet |-> sprite_sheet, sprite_width |-> sprite_width ]

\* The frames create_atlas cuts a sprite into, as << width, height >>.
frames_of(sprite) ==
    IF sprite.kind = "Inanimate"
    THEN << << sprite.sprite.width, sprite.sprite.height >> >>
    ELSE [ frame_index \in 1..(sprite.sprite_sheet.width \div sprite.sprite_width) |->
             << sprite.sprite_width, sprite.sprite_sheet.height >> ]

\* u32::next_power_of_two.
next_power_of_two(n) ==
    CHOOSE p \in { 2^k : k \in 0..30 } :
        /\ p >= n
        /\ \A q \in { 2^k : k \in 0..30 } : q >= n => p <= q

\* The standard library sorts a slice of up to this many entries by insertion.
SmallSortLen == 20

\* Insertion sort by descending area: an entry goes behind the entries of
\* equal area that precede it.
RECURSIVE insertion_sort_by_area(_)
insertion_sort_by_area(v) ==
    IF v = << >> THEN << >>
    ELSE LET rest == insertion_sort_by_area(SubSeq(v, 1, Len(v) - 1))
             last == v[Len(v)]
             index == Cardinality({ i \in 1..Len(rest) : rest[i][1] >= last[1] })
         IN  SubSeq(rest, 1, index) \o << last >> \o SubSeq(rest, index + 1, Len(rest))

\* w holds the entries of v, each as often as v does, by descending area.
sorted_by_area(v, w) ==
    /\ Len(w) = Len(v)
    /\ \A i \in 1..Len(v) :
          /\ \E j \in 1..Len(v) : v[j] = w[i]
          /\ Cardinality({ j \in 1..Len(w) : w[j] = v[i] })
               = Cardinality({ j \in 1..Len(v) : v[j] = v[i] })
    /\ \A i \in 1..(Len(w) - 1) : w[i][1] >= w[i + 1][1]

\* sort_unstable_by_key(|(area, _)| -(area as i32)) (builder.rs 585-586), as
\* the set of orders it can leave: descending area; a slice of up to
\* SmallSortLen entries is insertion-sorted, so entries of equal area keep
\* their order; in a longer slice the order among entries of equal area is
\* not specified (the sort is unstable).
sort_by_area(v) ==
    IF Len(v) <= SmallSortLen THEN { insertion_sort_by_area(v) }
    ELSE { w \in [ 1..Len(v) -> { v[i] : i \in 1..Len(v) } ] : sorted_by_area(v, w) }

\* The size of a new allocator for a frame (builder.rs 666-669).
new_atlas_size_uncapped(atlas_size, width, height, max_texture_size) ==
    next_power_of_two(Max(atlas_size, Max(width, height)))

new_atlas_size(atlas_size, width, height, max_texture_size) ==
    Min(next_power_of_two(Max(atlas_size, Max(width, height))), max_texture_size)

\* `loop { .. }` of builder.rs 635-660: double the last allocator while it
\* can grow, and stop at the first size that takes the frame.
RECURSIVE grow_last(_, _, _, _, _)
grow_last(a, atlas_size, width, height, max_texture_size) ==
    LET size == a.size
        new_size == Min(Min(size * 2, max_texture_size), 65536)
    IN  IF new_size > size
        THEN LET grown == grow(a, new_size)
                 r == allocate(grown, width, height)
             IN  IF IsSome(r)
                 THEN [ allocator |-> Unwrap(r).allocator, atlas_size |-> new_size,
                        rect |-> Some(Unwrap(r).rectangle) ]
                 ELSE grow_last(grown, new_size, width, height, max_texture_size)
        ELSE [ allocator |-> a, atlas_size |-> atlas_size, rect |-> None ]

\* `for (index, (allocator, texture)) in allocators.iter_mut().enumerate()`
\* (builder.rs 615-629): the loop stops at the first allocator that
\* allocates; its position, 0 when none allocates.
last_with_room(allocators, width, height) ==
    LET taking == { i \in 1..Len(allocators) : IsSome(allocate(allocators[i], width, height)) }
    IN  IF taking = { } THEN 0 ELSE CHOOSE i \in taking : \A j \in taking : j <= i

first_with_room(allocators, width, height) ==
    LET taking == { i \in 1..Len(allocators) : IsSome(allocate(allocators[i], width, height)) }
    IN  IF taking = { } THEN 0 ELSE CHOOSE i \in taking : \A j \in taking : i <= j

\* The body of `'outer: for sprite in frames`: place one frame. st holds the
\* allocators, atlas_size, the allocations of the sprite so far, and err
\* once the panic of line 671 was hit.
pack_frame(st, width, height, max_texture_size) ==
    LET i == first_with_room(st.allocators, width, height)
    IN  IF i # 0
        THEN LET r == Unwrap(allocate(st.allocators[i], width, height))
             IN  [ st EXCEPT !.allocators[i] = r.allocator,
                             !.allocations = Append(@, << i - 1, r.rectangle >>) ]
        ELSE LET n == Len(st.allocators)
                 g == IF n = 0
                      THEN [ allocator |-> << >>, atlas_size |-> st.atlas_size, rect |-> None ]
                      ELSE grow_last(st.allocators[n], st.atlas_size, width, height,
                                     max_texture_size)
                 grown == IF n = 0 THEN st.allocators
                          ELSE [ st.allocators EXCEPT ![n] = g.allocator ]
             IN  IF IsSome(g.rect)
                 THEN [ st EXCEPT !.allocators = grown, !.atlas_size = g.atlas_size,
                                  !.allocations = Append(@, << n - 1, Unwrap(g.rect) >>) ]
                 ELSE LET atlas_size == new_atlas_size(g.atlas_size, width, height,
                                                       max_texture_size)
                          r == allocate(new_allocator(atlas_size), width, height)
                      IN  IF atlas_size < Max(width, height) \/ ~IsSome(r)
                          THEN [ st EXCEPT !.err = TRUE ]
                          ELSE [ st EXCEPT
                                   !.allocators = Append(grown, Unwrap(r).allocator),
                                   !.atlas_size = atlas_size,
                                   !.allocations = Append(@, << n, Unwrap(r).rectangle >>) ]

RECURSIVE pack_frames(_, _, _)
pack_frames(st, frames, max_texture_size) ==
    IF frames = << >> \/ st.err THEN st
    ELSE pack_frames(pack_frame(st, frames[1][1], frames[1][2], max_texture_size),
                     Tail(frames), max_texture_size)

\* `for (_, sprite_id) in &self.sprite_areas`.
RECURSIVE pack_sprites(_, _, _, _)
pack_sprites(st, areas, sprs, max_texture_size) ==
    IF areas = << >> \/ st.err THEN st
    ELSE LET sprite_id == areas[1][2]
             packed == pack_frames([ st EXCEPT !.allocations = << >> ],
                                   frames_of(sprs[sprite_id]), max_texture_size)
         IN  pack_sprites([ packed EXCEPT !.sprites =
                                MapInsert(@, sprite_id, packed.allocations) ],
                          Tail(areas), sprs, max_texture_size)

\* create_atlas, as the set of its outcomes, one per order the sort can leave:
\* sprite_areas as sorted, the allocators and, per sprite, the (layer,
\* rectangle) of each of its frames; err when it panics.
create_atlas(areas, sprs, max_texture_size) ==
    { pack_sprites([ sprite_areas |-> sorted, allocators |-> << >>, atlas_size |-> 128,
                     allocations |-> << >>, sprites |-> EmptyMap, err |-> FALSE ],
                   sorted, sprs, max_texture_size) :
        sorted \in sort_by_area(areas) }

\* ------------------------------------------------------ add_sprite
\* The two runs of the program that are compared.
Runs == { 1, 2 }

\* A Stgi that holds no sprite (lib.rs 459-461).
new_run ==
    [ atlases |-> << >>, stored_sprites |-> EmptyMap,
      vertex_buffers |-> [ i \in 1..Len(ZOrder) |-> << >> ], panicked |-> "no" ]

\* The area store of a new Stgi (lib.rs 459-470).
new_run_areas ==
    [ ui_areas |-> [ i \in 1..Len(ZOrder) |-> EmptyMap ], dirty_areas |-> << >>,
      next_id |-> FirstId, index_buffer_cpu |-> new_index_buffer ]

\* The orders in which a HashMap with these keys can be iterated.
IterationOrders(keys) ==
    { order \in [ 1..Cardinality(keys) -> keys ] :
        \A i, j \in 1..Cardinality(keys) : i # j => order[i] # order[j] }

\* `for (_, stored_sprite) in self.stored_sprites.iter_mut()` (599-634), in
\* the given iteration order: the sprites of the last atlas are allocated
\* again in the new allocator; err when an allocate(..).unwrap() fails.
RECURSIVE relocate_sprites_of_all_atlases(_, _, _, _)
relocate_sprites_of_all_atlases(st, order, k, num_atlases) ==
    IF k > Len(order) \/ st.err THEN st
    ELSE LET stored_sprite == st.stored_sprites[order[k]]
             r == allocate(st.allocator, stored_sprite.width + 2, stored_sprite.height + 2)
         IN  IF ~IsSome(r) THEN [ st EXCEPT !.err = TRUE ]
             ELSE relocate_sprites_of_all_atlases(
                    [ st EXCEPT !.allocator = Unwrap(r).allocator,
                                !.stored_sprites[order[k]].allocation = Unwrap(r).rectangle ],
                    order, k + 1, num_atlases)

RECURSIVE relocate_sprites(_, _, _, _)
relocate_sprites(st, order, k, num_atlases) ==
    IF k > Len(order) \/ st.err THEN st
    ELSE LET stored_sprite == st.stored_sprites[order[k]]
         IN  IF stored_sprite.atlas_index # num_atlases - 1
             THEN relocate_sprites(st, order, k + 1, num_atlases)
             ELSE LET r == allocate(st.allocator, stored_sprite.width + 2,
                                    stored_sprite.height + 2)
                  IN  IF ~IsSome(r) THEN [ st EXCEPT !.err = TRUE ]
                      ELSE relocate_sprites(
                             [ st EXCEPT !.allocator = Unwrap(r).allocator,
                                         !.stored_sprites[order[k]].allocation =
                                             Unwrap(r).rectangle ],
                             order, k + 1, num_atlases)

\* add_sprite with its recursion through grow_last_atlas_or_create_new. When
\* the image fits no atlas the device allows, the recursion creates atlases
\* without end, until the stack or the device memory is exhausted; `created`
\* tells that this call has already created one, and the second time it
\* would, the call is recorded as "add_sprite recursion".
RECURSIVE add_sprite_run(_, _, _, _, _, _)
add_sprite_run(run, id, image, order, max_size, created) ==
    LET num_atlases == Len(run.atlases)
        r == IF num_atlases = 0 THEN None
             ELSE allocate(run.atlases[num_atlases], image.width + 2, image.height + 2)
    IN  IF image.width = 0 \/ image.height = 0
        THEN [ run EXCEPT !.panicked = "add_sprite" ]
        ELSE IF IsSome(r)
        THEN [ run EXCEPT
                 !.atlases[num_atlases] = Unwrap(r).allocator,
                 !.stored_sprites =
                     MapInsert(@, id, [ width |-> image.width, height |-> image.height,
                                        image |-> image, atlas_index |-> num_atlases - 1,
                                        allocation |-> Unwrap(r).rectangle ]) ]
        ELSE IF num_atlases > 0
                /\ Min(run.atlases[num_atlases].size * 2, max_size)
                     = run.atlases[num_atlases].size * 2
        THEN LET new_size == run.atlases[num_atlases].size * 2
                 st == relocate_sprites([ allocator |-> new_allocator(new_size),
                                          stored_sprites |-> run.stored_sprites,
                                          err |-> FALSE ],
                                        order, 1, num_atlases)
             IN  IF st.err THEN [ run EXCEPT !.panicked = "add_sprite" ]
                 ELSE add_sprite_run([ run EXCEPT !.atlases[num_atlases] = st.allocator,
                                                  !.stored_sprites = st.stored_sprites ],
                                     id, image, order, max_size, created)
        ELSE IF created
        THEN [ run EXCEPT !.panicked = "add_sprite recursion" ]
        ELSE add_sprite_run(
               [ run EXCEPT
                   !.atlases = Append(@, new_allocator(Min(512, max_size))),
                   !.vertex_buffers = [ i \in DOMAIN @ |-> Append(@[i], None) ] ],
               id, image, order, max_size, TRUE)

empty_ui_areas == [ i \in 1..Len(ZOrder) |-> EmptyMap ]

empty_vertex_buffers == [ i \in 1..Len(ZOrder) |-> [ a \in 1..NumAtlases |-> None ] ]

\* The area store and the picking fields of a new Stgi.
InitAreas ==
    /\ ui_areas = empty_ui_areas
    /\ vertex_buffers = empty_vertex_buffers
    /\ dirty_areas = << >>
    /\ areas_to_remove = << >>
    /\ next_id \in StartIds
    /\ panicked = "no"
    /\ issued = << >>
    /\ index_buffer_cpu = new_index_buffer
    /\ cursor_moved = FALSE
    /\ cursor_pos_uniform = << 0, 0 >>
    /\ cursor_pos_uniform_buffer = << 0, 0 >>
    /\ cursor_picking_result = None
    /\ cursor_uploaded = FALSE
    /\ channel = << >>
    /\ map_pending = FALSE
    /\ staging_buffer = ZeroId
    /\ command_buffer = None
    /\ picked_by_frame = None
    /\ frame_phase = "render"

\* A new builder.
InitBuilder ==
    /\ fonts = EmptyMap
    /\ present_ids = { }
    /\ sprites = EmptyMap
    /\ sprite_areas = << >>
    /\ build_result = None
    /\ builder_panicked = "no"
    /\ registrations = << >>
    /\ text_renderer = None
    /\ text_panicked = "no"
    /\ run_areas = [ r \in Runs |-> new_run_areas ]

Init ==
    /\ InitAreas
    /\ InitBuilder
    /\ max_texture_dimension_2d = AtlasSize
    /\ stgi_runs = [ r \in Runs |-> new_run ]

\* The handles a host can pass: those add_area has returned, and one that
\* this instance has not issued (a handle of another instance).
HandleInputs == { issued[i] : i \in 1..Len(issued) } \cup { next_id }

\* ------------------------------------------------------------ operations
add_area_within(area, limit) ==
    /\ Running
    /\ Len(issued) < limit
    /\ LET handle == next_id
           next == checked_add(next_id)
       IN  IF ~IsSome(next) \/ Contains(dirty_areas, handle)
           THEN \* checked_add(1).unwrap(), or unreachable!("Duplicate handle id")
                /\ panicked' = "add_area"
                /\ UNCHANGED << ui_areas, vertex_buffers, dirty_areas, areas_to_remove,
                                next_id, issued, index_buffer_cpu >>
           ELSE /\ next_id' = Unwrap(next)
                /\ ui_areas' = [ ui_areas EXCEPT ![to_usize(area.z) + 1] =
                       MapInsert(@, handle,
                           [ area |-> area,
                             old_z |-> area.z,
                             buffer_offset |-> None ]) ]
                /\ dirty_areas' = mark_dirty(dirty_areas, handle)
                /\ issued' = Append(issued, handle)
                /\ UNCHANGED << vertex_buffers, areas_to_remove, panicked,
                                index_buffer_cpu >>

add_area(area) == add_area_within(area, MaxIssued)

\* area_mut(handle), followed by the host's writes through the returned
\* reference: the area's fields become those of new_area, which may be the
\* values they already have.
area_mut(handle, new_area) ==
    /\ Running
    /\ LET zi == find_map(ui_areas, handle)
       IN  IF zi = 0
           THEN UNCHANGED << ui_areas, dirty_areas >>
           ELSE /\ dirty_areas' = mark_dirty(dirty_areas, handle)
                /\ ui_areas' = [ ui_areas EXCEPT ![zi][handle].area = new_area ]
    /\ UNCHANGED << vertex_buffers, areas_to_remove, next_id, panicked, issued,
                    index_buffer_cpu >>

\* What area(handle) returns.
area_result(ua, handle) ==
    LET zi == find_map(ua, handle)
    IN  IF zi = 0 THEN None ELSE Some(ua[zi][handle].area)

\* area takes &self: it returns area_result and writes nothing.
area(handle) ==
    /\ Running
    /\ UNCHANGED vars

\* remove_area: [ua, queue] after the call.
remove_area_eager(ua, queue, handle) ==
    LET zi == find_map(ua, handle)
    IN  [ ua |-> IF zi = 0 THEN ua ELSE [ ua EXCEPT ![zi] = MapRemove(@, handle) ],
          queue |-> Append(queue, handle) ]

remove_area_effect(ua, queue, handle) ==
    [ ua |-> ua, queue |-> Append(queue, handle) ]

\* remove_area while fewer than `pending` handles wait in the queue.
remove_area_within(handle, pending) ==
    /\ Running
    /\ Len(areas_to_remove) < pending
    /\ LET r == remove_area_effect(ui_areas, areas_to_remove, handle)
       IN  /\ ui_areas' = r.ua
           /\ areas_to_remove' = r.queue
    /\ UNCHANGED << vertex_buffers, dirty_areas, next_id, panicked, issued,
                    index_buffer_cpu >>

remove_area(handle) == remove_area_within(handle, MaxQueue)

clear_resetting_next_id ==
    /\ Running
    /\ ui_areas' = [ i \in DOMAIN ui_areas |-> EmptyMap ]
    /\ vertex_buffers' = [ i \in DOMAIN vertex_buffers |->
                             [ a \in DOMAIN vertex_buffers[i] |-> None ] ]
    /\ dirty_areas' = << >>
    /\ areas_to_remove' = << >>
    /\ next_id' = FirstId
    /\ UNCHANGED << panicked, issued, index_buffer_cpu >>

clear ==
    /\ Running
    /\ ui_areas' = [ i \in DOMAIN ui_areas |-> EmptyMap ]
    /\ vertex_buffers' = [ i \in DOMAIN vertex_buffers |->
                             [ a \in DOMAIN vertex_buffers[i] |-> None ] ]
    /\ dirty_areas' = << >>
    /\ areas_to_remove' = << >>
    /\ UNCHANGED << next_id, panicked, issued, index_buffer_cpu >>

\* render: the sync pass (the draws read the buffers and change no state).
\* device.poll(Maintain::Wait): a pending mapping completes and its callback
\* runs before poll returns; what the receiver then holds.
poll_nowait(ch, pending, staged) == ch

poll_wait(ch, pending, staged) ==
    IF pending THEN Append(ch, staged) ELSE ch

\* `while let Ok(id) = try_recv() { result = Some(id) }` and the match on it:
\* the hovered area after the drain.
drain_first(received, previous) ==
    IF received = << >> THEN previous
    ELSE IF received[1] = ZeroId THEN None ELSE Some(received[1])

drain_result(received, previous) ==
    IF received = << >> THEN previous
    ELSE IF received[Len(received)] = ZeroId THEN None
    ELSE Some(received[Len(received)])

\* `if self.cursor_moved`: whether this call writes the uniform buffer.
should_upload_always(moved) == TRUE

should_upload(moved) == moved

update_cursor ==
    /\ cursor_moved' = FALSE
    /\ cursor_uploaded' = should_upload(cursor_moved)
    /\ cursor_pos_uniform_buffer' =
           IF should_upload(cursor_moved) THEN cursor_pos_uniform
           ELSE cursor_pos_uniform_buffer
    /\ UNCHANGED cursor_pos_uniform
    /\ map_pending' = FALSE
    /\ channel' = << >>
    /\ cursor_picking_result' =
           drain_result(poll_wait(channel, map_pending, staging_buffer),
                        cursor_picking_result)
    /\ UNCHANGED staging_buffer

render ==
    /\ Running
    /\ UNCHANGED << next_id, issued >>
    /\ update_cursor
    /\ LET st == update_dirty_areas(ui_areas, vertex_buffers, areas_to_remove, dirty_areas)
       IN  \/ /\ panicked' = "render"
              /\ UNCHANGED << ui_areas, vertex_buffers, dirty_areas, areas_to_remove,
                              index_buffer_cpu >>
              /\ st.err
           \/ /\ UNCHANGED panicked
              /\ dirty_areas' = << >>
              /\ areas_to_remove' = << >>
              /\ ~st.err
              /\ ui_areas' = st.ua
              /\ vertex_buffers' = st.vb
              /\ index_buffer_cpu' = st.ib

\* The handles remove_area is called with: those add_area has returned
\* (live, already removed, or cleared).
IssuedHandles == { issued[i] : i \in 1..Len(issued) }

pick_vars == << cursor_vars, gpu_vars, host_vars >>

\* A host that only manages areas: it never moves the pointer, and drops the
\* command buffer render returns.
Next ==
    \/ \E new_area \in AreaInputs : add_area(new_area) /\ UNCHANGED << pick_vars, asset_vars >>
    \/ \E handle \in HandleInputs, new_area \in AreaInputs :
          area_mut(handle, new_area) /\ UNCHANGED << pick_vars, asset_vars >>
    \/ \E handle \in HandleInputs : area(handle) /\ UNCHANGED << pick_vars, asset_vars >>
    \/ \E handle \in IssuedHandles : remove_area(handle) /\ UNCHANGED << pick_vars, asset_vars >>
    \/ clear /\ UNCHANGED << pick_vars, asset_vars >>
    \/ render /\ UNCHANGED << host_vars, asset_vars >>

Spec == Init /\ [][Next]_vars

\* The same program, with the inputs that move areas between atlas layers.
NextAtlas ==
    \/ \E new_area \in AtlasAreaInputs : add_area(new_area) /\ UNCHANGED << pick_vars, asset_vars >>
    \/ \E handle \in HandleInputs, new_area \in AtlasAreaInputs :
          area_mut(handle, new_area) /\ UNCHANGED << pick_vars, asset_vars >>
    \/ \E handle \in HandleInputs : area(handle) /\ UNCHANGED << pick_vars, asset_vars >>
    \/ \E handle \in IssuedHandles : remove_area(handle) /\ UNCHANGED << pick_vars, asset_vars >>
    \/ clear /\ UNCHANGED << pick_vars, asset_vars >>
    \/ render /\ UNCHANGED << host_vars, asset_vars >>

SpecAtlas == Init /\ [][NextAtlas]_vars

\* ------------------------------------------------- picking pipeline
\* update_cursor_position(x, y).
update_cursor_position(x, y) ==
    /\ Running
    /\ cursor_pos_uniform' = << x, y >>
    /\ cursor_moved' = TRUE
    /\ UNCHANGED << vars, cursor_pos_uniform_buffer, cursor_picking_result,
                    cursor_uploaded, gpu_vars, host_vars, asset_vars >>

\* What currently_hovered_area returns.
currently_hovered_area_result == cursor_picking_result

currently_hovered_area ==
    /\ Running
    /\ UNCHANGED all_vars

\* The id the commands render has just recorded write to the staging buffer
\* when they run: the picking pass over the buffers as synced by this call,
\* read at the pointer position as uploaded by this call. (Nothing writes a
\* vertex buffer or the uniform buffer between render and the submit.)
render_result == picked_id(vertex_buffers', cursor_pos_uniform_buffer')

\* The host keeps the returned command buffer (none is returned on a panic).
keep_command_buffer ==
    command_buffer' = IF panicked' = "no" THEN Some(render_result) ELSE None

\* The host's queue.submit of the returned command buffer; the GPU runs it
\* before any later mapping of the staging buffer completes. A buffer with a
\* pending mapping cannot be used in a submit. (frame_phase is the host's
\* and is set where the host's loop is described.)
submit ==
    /\ Running
    /\ IsSome(command_buffer)
    /\ ~map_pending
    /\ staging_buffer' = Unwrap(command_buffer)
    /\ command_buffer' = None
    /\ UNCHANGED << vars, cursor_vars, channel, map_pending, picked_by_frame,
                    asset_vars >>

\* post_render_work: map_async on the staging buffer.
post_render_work ==
    /\ Running
    /\ ~map_pending
    /\ Len(channel) < MaxChannel
    /\ map_pending' = TRUE
    /\ UNCHANGED << vars, cursor_vars, channel, staging_buffer, command_buffer,
                    picked_by_frame, asset_vars >>

\* `_sender.send(id)`.
send_twice(ch, id) == ch \o << id, id >>

send(ch, id) == Append(ch, id)

\* A callback that sends the id and leaves the mapping as it is.
map_callback_without_unmap ==
    /\ Running
    /\ map_pending
    /\ channel' = send(channel, staging_buffer)
    /\ UNCHANGED map_pending
    /\ UNCHANGED << vars, cursor_vars, staging_buffer, host_vars, asset_vars >>

\* The mapping callback, on whichever thread the driver runs it: read the id,
\* send it, unmap.
map_callback ==
    /\ Running
    /\ map_pending
    /\ channel' = send(channel, staging_buffer)
    /\ map_pending' = FALSE
    /\ UNCHANGED << vars, cursor_vars, staging_buffer, host_vars, asset_vars >>

\* The pointer positions the host passes.
CursorPositions == { << 30, 40 >>, << 70, 70 >> }

\* The areas the host adds in these runs: one at z First, and one at z Second
\* that overlaps it.
CursorAreaInputs ==
    { UiArea(<< 0, 64, 0, 64 >>, "First", "X"),
      UiArea(<< 10, 74, 20, 84 >>, "Second", "X") }

InitCursor == Init /\ next_id = FirstId

\* A host that adds, changes and removes areas, moves the pointer, and calls render,
\* submit and post_render_work in any order the API allows.
NextCursor ==
    \/ \E new_area \in CursorAreaInputs :
          /\ Len(issued) < MaxCursorAreas
          /\ add_area(new_area)
          /\ UNCHANGED << pick_vars, asset_vars >>
    \/ \E handle \in IssuedHandles, new_area \in CursorAreaInputs :
          area_mut(handle, new_area) /\ UNCHANGED << pick_vars, asset_vars >>
    \/ \E handle \in IssuedHandles : remove_area(handle) /\ UNCHANGED << pick_vars, asset_vars >>
    \/ \E pos \in CursorPositions : update_cursor_position(pos[1], pos[2])
    \/ currently_hovered_area
    \/ render /\ keep_command_buffer
          /\ UNCHANGED << picked_by_frame, frame_phase, asset_vars >>
    \/ submit /\ UNCHANGED frame_phase
    \/ post_render_work /\ UNCHANGED frame_phase
    \/ map_callback

SpecCursor == InitCursor /\ [][NextCursor]_all_vars

\* A host whose frame loop is render, submit, post_render_work, and that
\* changes areas and moves the pointer between frames.
NextFrames ==
    \/ \E new_area \in CursorAreaInputs :
          /\ frame_phase = "render"
          /\ Len(issued) < MaxCursorAreas
          /\ add_area(new_area)
          /\ UNCHANGED << pick_vars, asset_vars >>
    \/ \E handle \in IssuedHandles :
          /\ frame_phase = "render"
          /\ remove_area(handle)
          /\ UNCHANGED << pick_vars, asset_vars >>
    \/ \E pos \in CursorPositions :
          /\ frame_phase = "render"
          /\ update_cursor_position(pos[1], pos[2])
    \/ /\ frame_phase = "render"
       /\ render
       /\ keep_command_buffer
       /\ picked_by_frame' = Some(render_result)
       /\ frame_phase' = "submit"
       /\ UNCHANGED asset_vars
    \/ /\ frame_phase = "submit"
       /\ submit
       /\ frame_phase' = "post_render_work"
    \/ /\ frame_phase = "post_render_work"
       /\ post_render_work
       /\ frame_phase' = "render"
    \/ map_callback

SpecFrames == InitCursor /\ [][NextFrames]_all_vars

\* The frame loop of a host that also changes areas and clears between frames.
NextHover ==
    \/ NextFrames
    \/ \E handle \in IssuedHandles, new_area \in CursorAreaInputs :
          /\ frame_phase = "render"
          /\ area_mut(handle, new_area)
          /\ UNCHANGED << pick_vars, asset_vars >>
    \/ /\ frame_phase = "render"
       /\ clear
       /\ UNCHANGED << pick_vars, asset_vars >>

SpecHover == InitCursor /\ [][NextHover]_all_vars

\* A host that adds areas and removes them, also twice and also before the
\* next frame.
NextRemovals ==
    \/ \E new_area \in AreaInputs : add_area(new_area) /\ UNCHANGED << pick_vars, asset_vars >>
    \/ \E handle \in HandleInputs :
          remove_area_within(handle, MaxPending) /\ UNCHANGED << pick_vars, asset_vars >>
    \/ render /\ UNCHANGED << host_vars, asset_vars >>

SpecRemovals == InitCursor /\ [][NextRemovals]_vars

\* ------------------------------------------------- a full index buffer
\* A Stgi after InitialQuads add_area calls with one area and one render: the
\* areas fill one instance buffer, which has as many quads as the index
\* buffer has groups. The render has appended the handles in ascending
\* order, doubling the capacity from one slot.
ResidentArea == UiArea(<< 0, 64, 0, 64 >>, "First", "X")

ResidentHandles == [ k \in 1..InitialQuads |-> << 0, k >> ]

InitIndex ==
    /\ index_buffer_cpu = new_index_buffer
    /\ ui_areas =
          [ empty_ui_areas EXCEPT ![to_usize(ResidentArea.z) + 1] =
              [ h \in { ResidentHandles[k] : k \in 1..InitialQuads } |->
                  [ area |-> ResidentArea, old_z |-> ResidentArea.z,
                    buffer_offset |-> Some((h[2] - 1) * QuadBytes) ] ] ]
    /\ vertex_buffers =
          [ empty_vertex_buffers EXCEPT
              ![to_usize(ResidentArea.z) + 1][stored_sprites[ResidentArea.sprite].atlas_index + 1] =
                  Some([ capacity |-> next_power_of_two(InitialQuads) * QuadBytes,
                         size |-> InitialQuads * QuadBytes,
                         staging |-> [ k \in 1..InitialQuads |->
                                         vertices(ResidentArea, ResidentHandles[k]) ],
                         order |-> ResidentHandles ]) ]
    /\ dirty_areas = << >>
    /\ areas_to_remove = << >>
    /\ next_id = << 0, InitialQuads + 1 >>
    /\ panicked = "no"
    /\ issued = ResidentHandles
    /\ cursor_moved = FALSE
    /\ cursor_pos_uniform = << 0, 0 >>
    /\ cursor_pos_uniform_buffer = << 0, 0 >>
    /\ cursor_picking_result = None
    /\ cursor_uploaded = FALSE
    /\ channel = << >>
    /\ map_pending = FALSE
    /\ staging_buffer = ZeroId
    /\ command_buffer = None
    /\ picked_by_frame = None
    /\ frame_phase = "render"
    /\ InitBuilder
    /\ max_texture_dimension_2d = AtlasSize
    /\ stgi_runs = [ r \in Runs |-> new_run ]

\* A host that adds a few more areas, removes the first or the last one, and
\* renders.
NextIndex ==
    \/ add_area_within(ResidentArea, InitialQuads + MaxIssued)
       /\ UNCHANGED << pick_vars, asset_vars >>
    \/ \E handle \in { issued[1], issued[Len(issued)] } :
          remove_area_within(handle, MaxQueue) /\ UNCHANGED << pick_vars, asset_vars >>
    \/ render /\ UNCHANGED << host_vars, asset_vars >>

SpecIndex == InitIndex /\ [][NextIndex]_vars

\* ------------------------------------------------- sprite and font registry
BuilderRunning == builder_panicked = "no" /\ text_panicked = "no"

builder_panic(call) ==
    /\ builder_panicked' = call
    /\ UNCHANGED << fonts, present_ids, sprites, sprite_areas, build_result >>

\* Font::from_bytes(raw, ..): whether the bytes parse as a font.
font_from_bytes(raw) == IF raw = "garbage" THEN None ELSE Some(raw)

\* HashMap::insert: the value of an occupied key is replaced.
insert(m, k, v) == MapInsert(m, k, v)

\* ------------------------------------------------------- glyph atlas
\* The texel budget build passes to TextRenderer::new (builder.rs 531).
AtlasArea == 8192 * 8192

\* `(atlas_area + max_texture_area - 1) / max_texture_area` (text.rs 93);
\* with the budget of build the u32 sum stays below 2^31.
atlas_count_rounding_down(atlas_area, max_texture_area) == atlas_area \div max_texture_area

atlas_count(atlas_area, max_texture_area) ==
    (atlas_area + max_texture_area - 1) \div max_texture_area

\* size_of::<GlyphVertex>(): four f32 and two u32.
GlyphVertexBytes == 24

\* The quads a text vertex buffer is created for.
InitialGlyphQuads == 256

\* The VertexBuffer of one z-level as TextRenderer::new creates it; `buffer`
\* is the GPU buffer, kept as its size in bytes.
new_text_vertex_buffer ==
    [ staging |-> << >>,
      buffer |-> InitialGlyphQuads * 4 * GlyphVertexBytes,
      len |-> 0,
      capacity |-> InitialGlyphQuads ]

\* TextRenderer::new: the allocators, the fonts, the empty glyph cache and
\* one vertex buffer per z-level.
TextRenderer_new(limit, atlas_area, the_fonts) ==
    LET max_texture_size == Min(limit, 16384)
        max_texture_area == max_texture_size * max_texture_size
    IN  [ fonts |-> the_fonts,
          atlas_allocators |->
              [ i \in 1..atlas_count(atlas_area, max_texture_area) |->
                  new_allocator(max_texture_size) ],
          rasterized_glyphs |-> EmptyMap,
          vertex_buffers |-> [ z \in 1..Len(ZOrder) |-> new_text_vertex_buffer ] ]

\* font.rasterize(c, font_size as f32) of the fontdue crate, by the metrics
\* it returns: a space and a line feed have no bitmap, "W" fills the em
\* square, any other character half of it.
rasterize(font, c, font_size) ==
    IF c \in { " ", "\n" } THEN [ width |-> 0, height |-> 0 ]
    ELSE IF c = "W" THEN [ width |-> font_size, height |-> font_size ]
    ELSE [ width |-> font_size \div 2, height |-> font_size \div 2 ]

Invisible == [ kind |-> "Invisible" ]

Visible(atlas_index, allocation) ==
    [ kind |-> "Visible", atlas_index |-> atlas_index, allocation |-> allocation ]

\* TextRenderer::rasterize_glyph on renderer t: the renderer afterwards, and
\* err when the call panics.
rasterize_glyph_result(t, font_id, font_size, c) ==
    IF << font_id, font_size, c >> \in DOMAIN t.rasterized_glyphs
    THEN [ t |-> t, err |-> "no" ]
    ELSE IF font_id \notin DOMAIN t.fonts
    THEN [ t |-> t, err |-> "unwrap" ]
    ELSE LET metrics == rasterize(t.fonts[font_id], c, font_size)
             padded_width == metrics.width + 2
             padded_height == metrics.height + 2
             taking == { index \in 1..Len(t.atlas_allocators) :
                           IsSome(allocate(t.atlas_allocators[index],
                                           padded_width, padded_height)) }
         IN  IF metrics.width = 0 \/ metrics.height = 0
             THEN [ t |-> [ t EXCEPT !.rasterized_glyphs =
                                insert(@, << font_id, font_size, c >>, Invisible) ],
                    err |-> "no" ]
             ELSE IF taking = { }
             THEN [ t |-> t, err |-> "Glyph atlas overflow" ]
             ELSE LET index == CHOOSE i \in taking : \A j \in taking : i <= j
                      a == Unwrap(allocate(t.atlas_allocators[index],
                                           padded_width, padded_height))
                  IN  [ t |-> [ t EXCEPT
                                  !.atlas_allocators[index] = a.allocator,
                                  !.rasterized_glyphs =
                                      insert(@, << font_id, font_size, c >>,
                                             Visible(index - 1, a.rectangle)) ],
                        err |-> "no" ]

\* StgiBuilder::add_font.
add_font(font_id, raw) ==
    /\ BuilderRunning
    /\ Len(registrations) < MaxRegistrations
    /\ registrations' = Append(registrations, [ op |-> "add_font", id |-> font_id,
                                                image |-> raw ])
    /\ IF ~IsSome(font_from_bytes(raw))
       THEN builder_panic("add_font")
       ELSE /\ fonts' = insert(fonts, font_id, Unwrap(font_from_bytes(raw)))
            /\ UNCHANGED << present_ids, sprites, sprite_areas, build_result,
                            builder_panicked >>
    /\ UNCHANGED << vars, pick_vars, max_texture_dimension_2d, stgi_runs,
                    text_renderer, text_panicked, run_areas >>

\* StgiBuilder::add_inanimate_sprite.
add_inanimate_sprite(sprite_id, sprite) ==
    /\ BuilderRunning
    /\ Len(registrations) < MaxRegistrations
    /\ registrations' = Append(registrations, [ op |-> "add_inanimate_sprite",
                                                id |-> sprite_id, image |-> sprite ])
    /\ IF sprite_id \in present_ids \/ ~(sprite.width > 0 /\ sprite.height > 0)
       THEN builder_panic("add_inanimate_sprite")
       ELSE /\ sprites' = insert(sprites, sprite_id, Inanimate(sprite))
            /\ sprite_areas' = Append(sprite_areas,
                                      << sprite.width * sprite.height, sprite_id >>)
            /\ present_ids' = present_ids \cup { sprite_id }
            /\ UNCHANGED << fonts, build_result, builder_panicked >>
    /\ UNCHANGED << vars, pick_vars, max_texture_dimension_2d, stgi_runs,
                    text_renderer, text_panicked, run_areas >>

\* StgiBuilder::add_animated_sprite; sprite_width is an Option<NonZeroU32>.
add_animated_sprite(sprite_id, sprite_sheet, sprite_width) ==
    /\ BuilderRunning
    /\ Len(registrations) < MaxRegistrations
    /\ registrations' = Append(registrations, [ op |-> "add_animated_sprite",
                                                id |-> sprite_id, image |-> sprite_sheet ])
    /\ LET height == sprite_sheet.height
           width == IF IsSome(sprite_width) THEN Unwrap(sprite_width) ELSE height
       IN  IF sprite_id \in present_ids
              \/ ~(sprite_sheet.width > 0 /\ height > 0 /\ width > 0)
           THEN builder_panic("add_animated_sprite")
           ELSE /\ sprites' = insert(sprites, sprite_id, Animated(sprite_sheet, width))
                /\ sprite_areas' = Append(sprite_areas, << width * height, sprite_id >>)
                /\ present_ids' = present_ids \cup { sprite_id }
                /\ UNCHANGED << fonts, build_result, builder_panicked >>
    /\ UNCHANGED << vars, pick_vars, max_texture_dimension_2d, stgi_runs,
                    text_renderer, text_panicked, run_areas >>

\* `offset += allocations.len() as u32` (line 120).
next_offset_by_one(offset, len) == offset + 1

next_offset(offset, len) == offset + len

\* The Allocation of lines 122-128. A coordinate is the quotient of two
\* integers converted to f32, kept as << texels, atlas_size >>.
Allocation(atlas_index, rect, atlas_size) ==
    [ x_min |-> << rect.min_x, atlas_size >>, x_max |-> << rect.max_x, atlas_size >>,
      y_min |-> << rect.min_y, atlas_size >>, y_max |-> << rect.max_y, atlas_size >>,
      atlas_index |-> atlas_index ]

\* `.map(|(_, texture)| texture.dimensions().0).max()` (lines 108-111); a
\* texture has the size of its allocator.
RECURSIVE max_dimension(_)
max_dimension(allocators) ==
    IF allocators = << >> THEN None
    ELSE LET rest == max_dimension(Tail(allocators))
         IN  IF IsSome(rest) THEN Some(Max(allocators[1].size, Unwrap(rest)))
             ELSE Some(allocators[1].size)

\* `for (sprite_id, allocations) in sprites` (lines 114-130), the HashMap
\* iterated in the given order from its k-th entry.
RECURSIVE build_tables(_, _, _, _, _)
build_tables(t, order, k, packed_sprites, atlas_size) ==
    IF k > Len(order) THEN t
    ELSE LET sprite_id == order[k]
             allocations == packed_sprites[sprite_id]
         IN  build_tables(
               [ sprite_indices |-> insert(t.sprite_indices, sprite_id, t.index),
                 index |-> t.index + 1,
                 offset_table |-> Append(t.offset_table, << t.offset, Len(allocations) >>),
                 offset |-> next_offset(t.offset, Len(allocations)),
                 allocation_table |->
                     t.allocation_table \o
                     [ f \in 1..Len(allocations) |->
                         Allocation(allocations[f][1], allocations[f][2], atlas_size) ] ],
               order, k + 1, packed_sprites, atlas_size)

\* StgiBuilder::build on the device: create_atlas, then the largest atlas
\* size (`.max().unwrap()`, line 112), then the three tables, then the
\* TextRenderer (line 528); the rest of build creates GPU objects.
build ==
    /\ BuilderRunning
    /\ build_result = None
    /\ \E packed \in create_atlas(sprite_areas, sprites, max_texture_dimension_2d) :
       /\ IF packed.err THEN builder_panic("create_atlas")
           ELSE IF ~IsSome(max_dimension(packed.allocators)) THEN builder_panic("build")
           ELSE /\ sprite_areas' = packed.sprite_areas
                /\ \E order \in IterationOrders(DOMAIN packed.sprites) :
                      LET t == build_tables(
                                 [ sprite_indices |-> EmptyMap, index |-> 0,
                                   offset_table |-> << >>, offset |-> 0,
                                   allocation_table |-> << >> ],
                                 order, 1, packed.sprites,
                                 Unwrap(max_dimension(packed.allocators)))
                      IN  build_result' = Some([ allocators |-> packed.allocators,
                                                 sprites |-> packed.sprites,
                                                 sprite_indices |-> t.sprite_indices,
                                                 offset_table |-> t.offset_table,
                                                 allocation_table |-> t.allocation_table ])
                /\ UNCHANGED << fonts, present_ids, sprites, builder_panicked >>
       /\ text_renderer' =
             IF packed.err \/ packed.allocators = << >> THEN text_renderer
             ELSE Some(TextRenderer_new(max_texture_dimension_2d, AtlasArea, fonts))
    /\ UNCHANGED << vars, pick_vars, max_texture_dimension_2d, stgi_runs, registrations,
                    text_panicked, run_areas >>

\* Stgi::add_sprite, called in both runs; each run iterates its HashMap in an
\* order of its own.
add_sprite(id, image) ==
    /\ \A r \in Runs : stgi_runs[r].panicked = "no"
    /\ Len(registrations) < MaxRegistrations
    /\ registrations' = Append(registrations, [ op |-> "add_sprite", id |-> id,
                                                image |-> image ])
    /\ \E orders \in [ Runs -> IterationOrders(DOMAIN stgi_runs[1].stored_sprites) ] :
          stgi_runs' = [ r \in Runs |->
                           add_sprite_run(stgi_runs[r], id, image, orders[r],
                                          max_texture_dimension_2d, FALSE) ]
    /\ UNCHANGED << vars, pick_vars, fonts, present_ids, sprites, sprite_areas,
                    build_result, builder_panicked, max_texture_dimension_2d,
                    text_renderer, text_panicked, run_areas >>

\* The inputs of the registration calls.
SpriteIdInputs == { "P", "Q", "R" }

BuilderIdInputs == { "P", "Q" }

ImageInputs ==
    { Image(300, 300, "a"), Image(150, 150, "b"), Image(600, 100, "c"),
      Image(512, 64, "e"), Image(0, 10, "d") }

SpriteWidthInputs == { None, Some(200) }

FontIdInputs == { "F", "G" }

FontInputs == { "ttf1", "ttf2", "garbage" }

\* The devices: their maximum texture dimension.
DeviceLimits == { 512, 768, 1024 }

InitRegistry ==
    /\ InitAreas
    /\ next_id = FirstId
    /\ InitBuilder
    /\ max_texture_dimension_2d \in DeviceLimits
    /\ stgi_runs = [ r \in Runs |-> new_run ]

\* A host that registers sprites with a builder and builds.
NextBuilder ==
    \/ \E sprite_id \in BuilderIdInputs, sprite \in ImageInputs :
          add_inanimate_sprite(sprite_id, sprite)
    \/ \E sprite_id \in BuilderIdInputs, sprite_sheet \in ImageInputs,
          sprite_width \in SpriteWidthInputs :
          add_animated_sprite(sprite_id, sprite_sheet, sprite_width)
    \/ build

SpecBuilder == InitRegistry /\ [][NextBuilder]_all_vars

\* A host that registers up to three sprites of its own and builds: frames
\* that share a layer, frames that each fill a layer, a frame wider than
\* twice the layer the first frame opened, frames of which two do not fit
\* a layer of 65536, and a frame wider than 65536.
PackingImageInputs ==
    { Image(300, 300, "a"), Image(150, 150, "b"), Image(1100, 50, "c"),
      Image(40000, 40000, "f"), Image(70000, 1, "g") }

\* Devices whose maximum texture dimension is reached at once, after two
\* doublings of a 512 layer, and not before 65536.
PackingDeviceLimits == { 512, 2048, 131072 }

InitPacking ==
    /\ InitAreas
    /\ next_id = FirstId
    /\ InitBuilder
    /\ max_texture_dimension_2d \in PackingDeviceLimits
    /\ stgi_runs = [ r \in Runs |-> new_run ]

NextPacking ==
    \/ \E sprite_id \in SpriteIdInputs, sprite \in PackingImageInputs :
          add_inanimate_sprite(sprite_id, sprite)
    \/ \E sprite_id \in SpriteIdInputs :
          add_animated_sprite(sprite_id, Image(300, 300, "a"), Some(150))
    \/ build

SpecPacking == InitPacking /\ [][NextPacking]_all_vars

\* A host that registers fonts with a builder.
NextFonts ==
    \E font_id \in FontIdInputs, raw \in FontInputs : add_font(font_id, raw)

SpecFonts == InitRegistry /\ [][NextFonts]_all_vars

\* The images added to a running Stgi: those of the builder, one that makes
\* a 512 layer double, and one of which a 1024 layer that holds the former
\* takes none and a 512 layer one.
AddedImageInputs ==
    ImageInputs \cup { Image(600, 600, "f"), Image(430, 430, "g") }

\* A host that adds sprites to a running Stgi.
NextSprites ==
    \E id \in SpriteIdInputs, image \in AddedImageInputs : add_sprite(id, image)

SpecSprites == InitRegistry /\ [][NextSprites]_all_vars

\* ------------------------------------------- areas over added sprites
\* add_area, area_mut and the sync pass on a Stgi whose sprites were added
\* with add_sprite. The sprites, atlases and vertex buffers of a run are in
\* stgi_runs, its areas in run_areas.
RunsRunning == \A r \in Runs : stgi_runs[r].panicked = "no"

\* The handles a run has issued.
RunHandles(r) == UNION { DOMAIN run_areas[r].ui_areas[i] : i \in 1..Len(ZOrder) }

\* add_area (lib.rs 686-704) with a sprite the runs hold.
add_run_area(new_area) ==
    /\ RunsRunning
    /\ \A r \in Runs : Cardinality(RunHandles(r)) < MaxRunAreas
    /\ \A r \in Runs : new_area.sprite \in DOMAIN stgi_runs[r].stored_sprites
    /\ run_areas' =
          [ r \in Runs |->
              LET handle == run_areas[r].next_id
              IN  [ run_areas[r] EXCEPT
                      !.next_id = Unwrap(checked_add(handle)),
                      !.ui_areas[to_usize(new_area.z) + 1] =
                          MapInsert(@, handle, [ area |-> new_area, old_z |-> new_area.z,
                                                 buffer_offset |-> None ]),
                      !.dirty_areas = mark_dirty(@, handle) ] ]
    /\ UNCHANGED << vars, pick_vars, fonts, present_ids, sprites, sprite_areas,
                    build_result, builder_panicked, max_texture_dimension_2d,
                    stgi_runs, registrations, text_renderer, text_panicked >>

\* area_mut (lib.rs 710-723) of an issued handle, the host writing nothing
\* through the reference: the handle becomes dirty.
run_area_mut(handle) ==
    /\ RunsRunning
    /\ \A r \in Runs : handle \in RunHandles(r)
    /\ run_areas' = [ r \in Runs |->
                        [ run_areas[r] EXCEPT !.dirty_areas = mark_dirty(@, handle) ] ]
    /\ UNCHANGED << vars, pick_vars, fonts, present_ids, sprites, sprite_areas,
                    build_result, builder_panicked, max_texture_dimension_2d,
                    stgi_runs, registrations, text_renderer, text_panicked >>

\* update_dirty_areas of a run (lib.rs 959-1181); a run has removed no area,
\* so its areas_to_remove is empty.
run_update_dirty_areas(r) ==
    sync_all(remove_all([ ua |-> run_areas[r].ui_areas,
                          vb |-> stgi_runs[r].vertex_buffers,
                          ib |-> run_areas[r].index_buffer_cpu,
                          sprites |-> stgi_runs[r].stored_sprites,
                          atlases |-> stgi_runs[r].atlases,
                          err |-> FALSE ],
                        << >>),
             run_areas[r].dirty_areas)

\* render of the runs, as far as its sync pass goes: a run whose pass
\* panics stops as it was; otherwise the pass has written the areas, the
\* vertex buffers and the index buffer, and dirty_areas is drained.
run_render ==
    /\ RunsRunning
    /\ run_areas' = [ r \in Runs |->
                        LET st == run_update_dirty_areas(r)
                        IN  IF st.err THEN run_areas[r]
                            ELSE [ run_areas[r] EXCEPT !.ui_areas = st.ua,
                                                       !.index_buffer_cpu = st.ib,
                                                       !.dirty_areas = << >> ] ]
    /\ stgi_runs' = [ r \in Runs |->
                        LET st == run_update_dirty_areas(r)
                        IN  IF st.err THEN [ stgi_runs[r] EXCEPT !.panicked = "render" ]
                            ELSE [ stgi_runs[r] EXCEPT !.vertex_buffers = st.vb ] ]
    /\ UNCHANGED << vars, pick_vars, fonts, present_ids, sprites, sprite_areas,
                    build_result, builder_panicked, max_texture_dimension_2d,
                    registrations, text_renderer, text_panicked >>

RunImageInputs == { Image(300, 300, "a"), Image(150, 150, "b") }

\* A host that adds sprites to a running Stgi and shows areas with them.
NextRelocation ==
    \/ \E id \in BuilderIdInputs, image \in RunImageInputs : add_sprite(id, image)
    \/ \E sprite \in BuilderIdInputs : add_run_area(UiArea(<< 0, 64, 0, 64 >>, "First", sprite))
    \/ \E k \in 1..MaxRunAreas : run_area_mut(<< 0, k >>)
    \/ run_render

SpecRelocation == InitRegistry /\ [][NextRelocation]_all_vars

\* TextRenderer::rasterize_glyph, as update calls it for the characters of
\* the texts of the areas.
rasterize_glyph(font_id, font_size, c) ==
    /\ IsSome(text_renderer)
    /\ BuilderRunning
    /\ << font_id, font_size, c >> \in DOMAIN Unwrap(text_renderer).rasterized_glyphs
       \/ Cardinality(DOMAIN Unwrap(text_renderer).rasterized_glyphs) < MaxGlyphs
    /\ LET r == rasterize_glyph_result(Unwrap(text_renderer), font_id, font_size, c)
       IN  /\ text_renderer' = Some(r.t)
           /\ text_panicked' = r.err
    /\ UNCHANGED << vars, pick_vars, fonts, present_ids, sprites, sprite_areas,
                    build_result, builder_panicked, max_texture_dimension_2d,
                    stgi_runs, registrations, run_areas >>

FontSizeInputs == { 8190, 5998 }

CharInputs == { " ", "W", "a" }

\* Devices for text: 6000 gives two layers, the others one.
TextDeviceLimits == { 6000, 8192, 16384, 32768 }

InitText ==
    /\ InitAreas
    /\ next_id = FirstId
    /\ InitBuilder
    /\ max_texture_dimension_2d \in TextDeviceLimits
    /\ stgi_runs = [ r \in Runs |-> new_run ]

\* A host that registers fonts and a sprite, builds, and shows texts.
NextText ==
    \/ \E font_id \in FontIdInputs : add_font(font_id, "ttf1")
    \/ add_inanimate_sprite("P", Image(150, 150, "b"))
    \/ build
    \/ \E font_id \in FontIdInputs, font_size \in FontSizeInputs, c \in CharInputs :
          rasterize_glyph(font_id, font_size, c)

SpecText == InitText /\ [][NextText]_all_vars

\* ------------------------------------------------ TextRenderer::update
\* The text of an area: the characters, the font and the size in pixels.
Text(chars, font_id, font_size) ==
    [ text |-> chars, font |-> font_id, size |-> font_size ]

\* A UiArea as update reads it: rectangle (x_min, x_max, y_min, y_max),
\* z-level, enabled flag and optional text.
TextArea(rect, z, enabled, txt) ==
    [ rect |-> rect, z |-> z, enabled |-> enabled, text |-> txt ]

\* rasterize_glyphs: rasterize_glyph for each character in order. A cached
\* character returns at once, so the loop acts on the first occurrence of
\* each character; `pending` holds the positions of those not yet visited.
\* A panic ends the loop.
RECURSIVE rasterize_pending(_, _, _)
rasterize_pending(r, txt, pending) ==
    IF pending = { } \/ r.err # "no" THEN r
    ELSE LET i == CHOOSE i \in pending : \A j \in pending : i <= j
         IN  rasterize_pending(
                 rasterize_glyph_result(r.t, txt.font, txt.size, txt.text[i]),
                 txt, pending \ { i })

rasterize_glyphs(t, txt) ==
    rasterize_pending([ t |-> t, err |-> "no" ], txt,
                      { i \in 1..Len(txt.text) :
                          \A j \in 1..(i - 1) : txt.text[j] # txt.text[i] })

\* The layout of the fontdue crate is outside the repository; it is modelled
\* by what the settings of lines 382-392 ask of it, in whole pixels, with
\* every character one font size wide, a line feed of no width, and every
\* line one font size high.
\* wrap_hard_breaks: the character behind a line feed starts a line, and a
\* text that ends with a line feed ends with an empty line.
\* WrapStyle::Word with max_width: a line is broken in front of the first
\* word that would end beyond max_width; a word that is alone on its line is
\* not broken.
\* line_starts is the set of the positions at which the lines from the one
\* that starts at position k begin.
RECURSIVE line_starts(_, _, _, _)
line_starts(text, px, max_width, k) ==
    LET feeds == { j \in (k + 1)..(Len(text) + 1) : text[j - 1] = "\n" }
        limit == IF feeds = { } THEN Len(text) + 1
                 ELSE CHOOSE j \in feeds : \A i \in feeds : j <= i
        words == { j \in (k + 1)..(limit - 1) :
                     text[j - 1] = " " /\ text[j] \notin { " ", "\n" } }
        word_end(j) ==
            LET blanks == { e \in j..(limit - 1) : text[e] \in { " ", "\n" } }
            IN  IF blanks = { } THEN limit
                ELSE CHOOSE e \in blanks : \A f \in blanks : e <= f
        beyond == { j \in words : (word_end(j) - k) * px > max_width }
    IN  IF beyond # { }
        THEN { k } \cup line_starts(text, px, max_width,
                                    CHOOSE j \in beyond : \A i \in beyond : j <= i)
        ELSE IF feeds # { }
        THEN { k } \cup line_starts(text, px, max_width, limit)
        ELSE { k }

\* The glyphs of the lines in `origins`, line after line: a line is
\* << first position, position behind its last, x, y of its first glyph >>;
\* one glyph per character, with the character as parent and the size of
\* its bitmap, one font size apart.
RECURSIVE place_lines(_, _, _)
place_lines(t, txt, origins) ==
    IF origins = { } THEN << >>
    ELSE LET o == CHOOSE o \in origins : \A q \in origins : o[1] <= q[1]
         IN  [ i \in 1..(o[2] - o[1]) |->
                 LET c == txt.text[o[1] + i - 1]
                 IN  [ parent |-> c,
                       x |-> o[3] + (i - 1) * txt.size,
                       y |-> o[4],
                       width |-> rasterize(t.fonts[txt.font], c, txt.size).width,
                       height |-> rasterize(t.fonts[txt.font], c, txt.size).height ] ]
             \o place_lines(t, txt, origins \ { o })

\* layout.glyphs() after reset and append (lines 382-401). The text is
\* wrapped at max_width = x_max - x_min; HorizontalAlign::Center puts the
\* middle of every line (without the blanks it ends with) at the middle of
\* the area, VerticalAlign::Middle puts the middle of the block of lines at
\* the middle of max_height = y_max - y_min.
layout_glyphs(t, ta) ==
    LET txt == Unwrap(ta.text)
        n == Len(txt.text)
        max_width == ta.rect[2] - ta.rect[1]
        max_height == ta.rect[4] - ta.rect[3]
        starts == IF n = 0 THEN { } ELSE line_starts(txt.text, txt.size, max_width, 1)
        top == ta.rect[3] + (max_height - Cardinality(starts) * txt.size) \div 2
        origin(s) ==
            LET later == { o \in starts : o > s }
                end == IF later = { } THEN n + 1
                       ELSE CHOOSE o \in later : \A q \in later : o <= q
                inked == { e \in s..(end - 1) :
                             /\ txt.text[e] \notin { " ", "\n" }
                             /\ \A f \in (e + 1)..(end - 1) :
                                   txt.text[f] \in { " ", "\n" } }
                chars == IF inked = { } THEN 0 ELSE (CHOOSE e \in inked : TRUE) - s + 1
            IN  << s, end,
                   ta.rect[1] + (max_width - chars * txt.size) \div 2,
                   top + (Cardinality({ o \in starts : o <= s }) - 1) * txt.size >>
    IN  place_lines(t, txt, { origin(s) : s \in starts })

\* The four GlyphVertex values pushed for a visible glyph.
glyph_quad(t, handle, glyph, cached) ==
    LET atlas_size == t.atlas_allocators[cached.atlas_index + 1].size
        allocation == cached.allocation
        u0 == Tex(allocation.min_x + 1, atlas_size)
        v0 == Tex(allocation.min_y + 1, atlas_size)
        u1 == Tex(allocation.max_x - 1, atlas_size)
        v1 == Tex(allocation.max_y - 1, atlas_size)
    IN  << [ pos |-> << glyph.x, glyph.y >>, tex |-> << u0, v0 >>,
             atlas_index |-> cached.atlas_index, area_id |-> handle ],
           [ pos |-> << glyph.x + glyph.width, glyph.y >>, tex |-> << u1, v0 >>,
             atlas_index |-> cached.atlas_index, area_id |-> handle ],
           [ pos |-> << glyph.x + glyph.width, glyph.y + glyph.height >>,
             tex |-> << u1, v1 >>,
             atlas_index |-> cached.atlas_index, area_id |-> handle ],
           [ pos |-> << glyph.x, glyph.y + glyph.height >>, tex |-> << u0, v1 >>,
             atlas_index |-> cached.atlas_index, area_id |-> handle ] >>

\* A loop that pushes a quad for every glyph.
area_quads_with_invisible(t, handle, ta) ==
    LET txt == Unwrap(ta.text)
        cached(glyph) == t.rasterized_glyphs[<< txt.font, txt.size, glyph.parent >>]
        glyphs == layout_glyphs(t, ta)
    IN  [ k \in 1..Len(glyphs) |->
            glyph_quad(t, handle, glyphs[k],
                       IF cached(glyphs[k]).kind = "Visible" THEN cached(glyphs[k])
                       ELSE Visible(0, Rectangle(0, 0, 2, 2))) ]

\* `for glyph in self.layout.glyphs() { if let Visible { .. } = .. { push } }`:
\* the quads one area adds to the staging of its z-level.
area_quads(t, handle, ta) ==
    LET txt == Unwrap(ta.text)
        cached(glyph) == t.rasterized_glyphs[<< txt.font, txt.size, glyph.parent >>]
        visible == SelectSeq(layout_glyphs(t, ta),
                             LAMBDA glyph : cached(glyph).kind = "Visible")
    IN  [ k \in 1..Len(visible) |->
            glyph_quad(t, handle, visible[k], cached(visible[k])) ]

\* The loop over the areas passed to update, from area k on: disabled areas
\* and areas without text are skipped; after rasterize_glyphs the font is
\* looked up (`self.fonts.get(&text.font).unwrap()`, line 381), also for a
\* text without characters; a panic (an unknown font, a full glyph atlas)
\* ends the loop.
RECURSIVE stage_areas(_, _, _)
stage_areas(r, areas, k) ==
    IF k > Len(areas) \/ r.err # "no" THEN r
    ELSE LET handle == areas[k][1]
             ta == areas[k][2]
         IN  IF ~ta.enabled \/ ~IsSome(ta.text) THEN stage_areas(r, areas, k + 1)
             ELSE LET g == rasterize_glyphs(r.t, Unwrap(ta.text))
                      z == to_usize(ta.z) + 1
                  IN  IF g.err # "no" THEN g
                      ELSE IF Unwrap(ta.text).font \notin DOMAIN g.t.fonts
                      THEN [ t |-> g.t, err |-> "unwrap" ]
                      ELSE stage_areas(
                               [ t |-> [ g.t EXCEPT !.vertex_buffers[z].staging =
                                           @ \o area_quads(g.t, handle, ta) ],
                                 err |-> "no" ],
                               areas, k + 1)

\* `buffer.capacity *= 2` and the size of the buffer created for it.
grown_buffer_size(capacity) == capacity * GlyphVertexBytes

\* The loop over the vertex buffers, from z-level z on: an empty staging
\* sets len to 0; otherwise the buffer is replaced when the capacity is
\* below the number of quads, the staging is written at offset 0 and len is
\* set. queue.write_buffer of more bytes than the buffer has is a
\* validation error, which ends the program in the state reached.
RECURSIVE upload_buffers(_, _)
upload_buffers(r, z) ==
    IF z > Len(r.t.vertex_buffers) \/ r.err # "no" THEN r
    ELSE LET b == r.t.vertex_buffers[z]
             grown == IF b.capacity < Len(b.staging)
                      THEN [ b EXCEPT !.capacity = b.capacity * 2,
                                      !.buffer = grown_buffer_size(b.capacity * 2) ]
                      ELSE b
         IN  IF b.staging = << >>
             THEN upload_buffers([ r EXCEPT !.t.vertex_buffers[z].len = 0 ], z + 1)
             ELSE IF Len(grown.staging) * 4 * GlyphVertexBytes > grown.buffer
             THEN [ t |-> [ r.t EXCEPT !.vertex_buffers[z] = grown ],
                    err |-> "write_buffer" ]
             ELSE upload_buffers(
                      [ r EXCEPT !.t.vertex_buffers[z] =
                          [ grown EXCEPT !.len = Len(grown.staging) ] ],
                      z + 1)

\* TextRenderer::update on renderer t with the (handle, area) pairs of the
\* iterator: the renderer afterwards, and err when the call panics.
update_result(t, areas) ==
    LET cleared == [ t EXCEPT !.vertex_buffers =
                       [ z \in DOMAIN @ |-> [ @[z] EXCEPT !.len = 0, !.staging = << >> ] ] ]
    IN  upload_buffers(stage_areas([ t |-> cleared, err |-> "no" ], areas, 1), 1)

update(areas) ==
    /\ IsSome(text_renderer)
    /\ BuilderRunning
    /\ LET r == update_result(Unwrap(text_renderer), areas)
       IN  /\ text_renderer' = Some(r.t)
           /\ text_panicked' = r.err
    /\ UNCHANGED << vars, pick_vars, fonts, present_ids, sprites, sprite_areas,
                    build_result, builder_panicked, max_texture_dimension_2d,
                    stgi_runs, registrations, run_areas >>

\* A text longer than a vertex buffer's first capacity.
LongText == [ k \in 1..(InitialGlyphQuads + 1) |-> "a" ]

TextSize == 16

\* The areas the host shows: a text with an invisible character that is
\* wider than its area and is broken at the space, a disabled area, an
\* area without text, a long text, a text in another font that holds a
\* line feed, and a text without characters in that font.
TextAreaInputs ==
    { TextArea(<< 0, 32, 0, 64 >>, "First", TRUE,
               Some(Text(<< "a", " ", "W" >>, "F", TextSize))),
      TextArea(<< 0, 64, 0, 64 >>, "First", FALSE,
               Some(Text(<< "W" >>, "F", TextSize))),
      TextArea(<< 0, 64, 0, 64 >>, "Second", TRUE, None),
      TextArea(<< 0, 64, 0, 64 >>, "Second", TRUE,
               Some(Text(LongText, "F", TextSize))),
      TextArea(<< 10, 74, 20, 84 >>, "First", TRUE,
               Some(Text(<< "a", "\n", "W" >>, "G", TextSize))),
      TextArea(<< 0, 64, 0, 64 >>, "First", TRUE,
               Some(Text(<< >>, "G", TextSize))) }

\* The iterators update is called with: up to MaxTextAreas areas, the k-th
\* under the k-th handle.
TextAreaLists ==
    UNION { [ 1..n -> TextAreaInputs ] : n \in 0..MaxTextAreas }

WithHandles(list) == [ k \in 1..Len(list) |-> << << 0, k >>, list[k] >> ]

\* A host that registers fonts and a sprite, builds, and updates the texts.
NextTextUpdate ==
    \/ \E font_id \in FontIdInputs : add_font(font_id, "ttf1")
    \/ add_inanimate_sprite("P", Image(150, 150, "b"))
    \/ build
    \/ \E list \in TextAreaLists : update(WithHandles(list))

\* The device of these runs has the largest layer side the renderer uses.
InitTextUpdate == InitText /\ max_texture_dimension_2d = 16384

SpecTextUpdate == InitTextUpdate /\ [][NextTextUpdate]_all_vars

\* ================================================================ claims
\* ------------------------------------------------------ state functions
ZIndices == 1..Len(ZOrder)

AtlasIndices == 1..NumAtlases

\* The handles that have an area record.
AllHandles == UNION { DOMAIN ui_areas[i] : i \in ZIndices }

AllHandlesNext == UNION { DOMAIN ui_areas'[i] : i \in ZIndices }

AreaOf(handle) == ui_areas[find_map(ui_areas, handle)][handle]

AreaOfNext(handle) == ui_areas'[find_map(ui_areas', handle)][handle]

\* The slot-to-handle array of a buffer; empty when the buffer is absent.
OrderOf(vb, z, ai) == IF IsSome(vb[z][ai]) THEN Unwrap(vb[z][ai]).order ELSE << >>

StagingOf(vb, z, ai) == IF IsSome(vb[z][ai]) THEN Unwrap(vb[z][ai]).staging ELSE << >>

\* The buffer an area belongs to by its current fields.
ZOf(a) == to_usize(a.area.z) + 1

AtlasOf(a) == stored_sprites[a.area.sprite].atlas_index + 1

\* The number of slots, over all buffers, that hold the handle.
SlotCount(vb, handle) ==
    Cardinality({ << z, ai, i >> \in ZIndices \X AtlasIndices \X (1..MaxIssued + 1) :
                    i <= Len(OrderOf(vb, z, ai)) /\ OrderOf(vb, z, ai)[i] = handle })

\* A sync pass has completed and nothing has been called since that needs one.
Synced == Running /\ dirty_areas = << >> /\ areas_to_remove = << >>

\* The area is resident at slot s (0-based) of buffer (z, ai), and records it.
ResidentAt(handle, z, ai, s) ==
    /\ handle \in AllHandles
    /\ s < Len(OrderOf(vertex_buffers, z, ai))
    /\ OrderOf(vertex_buffers, z, ai)[s + 1] = handle
    /\ AreaOf(handle).buffer_offset = Some(s * QuadBytes)

Slots == 0..MaxIssued

\* ------------------------------------------------------------------- C1
\* C1: after each sync pass every (z-level, atlas-layer) buffer holds exactly
\* the areas whose current z-level and sprite's atlas layer are that buffer's,
\* each once, in slots 0..len-1, and an absent buffer stands for none.
C1_BuffersExactAfterSync ==
    Synced =>
        \A z \in ZIndices, ai \in AtlasIndices :
            LET order == OrderOf(vertex_buffers, z, ai)
                members == { h \in AllHandles : ZOf(AreaOf(h)) = z /\ AtlasOf(AreaOf(h)) = ai }
            IN  /\ { order[i] : i \in 1..Len(order) } = members
                /\ Len(order) = Cardinality(members)
                /\ Len(StagingOf(vertex_buffers, z, ai)) = Len(order)

\* ------------------------------------------------------------------- C2
\* C2: no handle occupies more than one slot; the area named by order[i]
\* records slot i; and an area that records a slot and whose fields are as
\* last synced (it is not dirty) is the handle at that slot of the buffer of
\* its z-level and atlas layer.
C2_OneSlotAndCrossReferences ==
    Running =>
        /\ \A h \in IssuedHandles : SlotCount(vertex_buffers, h) <= 1
        /\ \A z \in ZIndices, ai \in AtlasIndices :
             \A i \in 1..Len(OrderOf(vertex_buffers, z, ai)) :
                LET h == OrderOf(vertex_buffers, z, ai)[i]
                IN  /\ h \in AllHandles
                    /\ AreaOf(h).buffer_offset = Some((i - 1) * QuadBytes)
        /\ \A h \in AllHandles :
             (IsSome(AreaOf(h).buffer_offset) /\ ~Contains(dirty_areas, h)) =>
                \E s \in Slots : ResidentAt(h, ZOf(AreaOf(h)), AtlasOf(AreaOf(h)), s)

\* ------------------------------------------------------------------- C3
\* C3: a sync pass whose only work is the removal of an area resident at
\* slot s of a buffer of N areas completes and leaves: for a non-last slot,
\* N-1 areas with the previously last area at slot s recording s and every
\* other occupant in its slot with its bytes; for the last of several slots,
\* the buffer shrunk by one; for the sole occupant, no buffer.
SwapRemoved(h, z, ai, s) ==
    LET before == Unwrap(vertex_buffers[z][ai])
        n == Len(before.order)
    IN  /\ panicked' = "no"
        /\ h \notin AllHandlesNext
        /\ IF n = 1 THEN vertex_buffers'[z][ai] = None
           ELSE /\ IsSome(vertex_buffers'[z][ai])
                /\ LET after == Unwrap(vertex_buffers'[z][ai])
                   IN  /\ Len(after.order) = n - 1
                       /\ Len(after.staging) = n - 1
                       /\ after.size = before.size - QuadBytes
                       /\ \A i \in 1..(n - 1) :
                            LET src == IF i = s + 1 THEN n ELSE i
                            IN  /\ after.order[i] = before.order[src]
                                /\ after.staging[i] = before.staging[src]
                                /\ after.order[i] \in AllHandlesNext
                                /\ AreaOfNext(after.order[i]).buffer_offset
                                     = Some((i - 1) * QuadBytes)

C3_SwapRemove ==
    [][ \A h \in IssuedHandles, z \in ZIndices, ai \in AtlasIndices, s \in Slots :
          ( /\ areas_to_remove = << h >>
            /\ dirty_areas = << >>
            /\ ResidentAt(h, z, ai, s)
            /\ render )
          => SwapRemoved(h, z, ai, s) ]_vars

\* ------------------------------------------------------------------- C4
\* C4: the handles add_area returns start at the counter's first id, are
\* never 0, strictly increase in call order, every later handle (next_id) is
\* greater than all returned so far, every stored area carries a returned
\* handle, and add_area panics only when the counter stands at u32::MAX,
\* which it never returns and never wraps past.
C4_HandlesIncreaseNeverReused ==
    /\ next_id # ZeroId
    /\ \A i \in 1..Len(issued) :
         /\ issued[i] # ZeroId
         /\ HandleLt(issued[i], next_id)
         /\ \A j \in (i + 1)..Len(issued) : HandleLt(issued[i], issued[j])
    /\ (Len(issued) > 0 => issued[1] \in StartIds)
    /\ AllHandles \subseteq IssuedHandles
    /\ (panicked = "add_area" => next_id = U32Max)

\* add_area has failed on the exhausted counter, after two handles were
\* returned and their areas removed or cleared.
C4_Witness ==
    /\ panicked = "add_area"
    /\ next_id = U32Max
    /\ Len(issued) = 2
    /\ AllHandles = { }

\* ------------------------------------------------------------------- C5
\* C5: a sync pass whose only work is a resident area h whose z-level was
\* changed completes, leaves h out of the old z-level's buffer and in the
\* new z-level's buffer at a newly assigned slot that h records, and leaves
\* the other occupants of the old buffer contiguous with matching recorded
\* slots.
Relocated(h, z, ai, s) ==
    LET nz == ZOf(AreaOf(h))
        old_after == OrderOf(vertex_buffers', z, ai)
        new_before == OrderOf(vertex_buffers, nz, ai)
        new_after == OrderOf(vertex_buffers', nz, ai)
    IN  /\ panicked' = "no"
        /\ ~Contains(old_after, h)
        /\ { old_after[i] : i \in 1..Len(old_after) }
             = { OrderOf(vertex_buffers, z, ai)[i] :
                   i \in 1..Len(OrderOf(vertex_buffers, z, ai)) } \ { h }
        /\ \A i \in 1..Len(old_after) :
             /\ old_after[i] \in AllHandlesNext
             /\ AreaOfNext(old_after[i]).buffer_offset = Some((i - 1) * QuadBytes)
        /\ new_after = Append(new_before, h)
        /\ AreaOfNext(h).buffer_offset = Some(Len(new_before) * QuadBytes)

C5_ZChangeRelocates ==
    [][ \A h \in IssuedHandles, z \in ZIndices, ai \in AtlasIndices, s \in Slots :
          ( /\ areas_to_remove = << >>
            /\ dirty_areas = << h >>
            /\ ResidentAt(h, z, ai, s)
            /\ ZOf(AreaOf(h)) # z
            /\ AtlasOf(AreaOf(h)) = ai
            /\ render )
          => Relocated(h, z, ai, s) ]_vars

\* ------------------------------------------------------------------- C6
\* C6: a sync pass whose only work is a dirty area h whose fields are as
\* they were synced (h is resident in the buffer of its z-level and atlas
\* layer and its staged bytes are those of its fields) completes and leaves
\* every buffer and h's recorded slot unchanged.
C6_TouchThenSyncChangesNothing ==
    [][ \A h \in IssuedHandles, s \in Slots :
          ( /\ areas_to_remove = << >>
            /\ dirty_areas = << h >>
            /\ ResidentAt(h, ZOf(AreaOf(h)), AtlasOf(AreaOf(h)), s)
            /\ StagingOf(vertex_buffers, ZOf(AreaOf(h)), AtlasOf(AreaOf(h)))[s + 1]
                 = vertices(AreaOf(h).area, h)
            /\ render )
          => /\ panicked' = "no"
             /\ vertex_buffers' = vertex_buffers
             /\ AreaOfNext(h).buffer_offset = AreaOf(h).buffer_offset ]_vars

\* ------------------------------------------------------------------- C7
\* C7: two areas that become resident in the same buffer in one sync pass
\* get slots in ascending handle order; and when a buffer's order is [A, B],
\* both added with that z-level, a sync pass whose only work is the removal
\* of A leaves the order [B] with B recording slot 0.
NewlyResidentAscending ==
    \A a \in AllHandles, b \in AllHandles :
      ( /\ HandleLt(a, b)
        /\ ~IsSome(AreaOf(a).buffer_offset)
        /\ ~IsSome(AreaOf(b).buffer_offset)
        /\ a \in AllHandlesNext
        /\ b \in AllHandlesNext )
      => \A z \in ZIndices, ai \in AtlasIndices :
           \A i \in 1..Len(OrderOf(vertex_buffers', z, ai)),
              j \in 1..Len(OrderOf(vertex_buffers', z, ai)) :
                ( /\ OrderOf(vertex_buffers', z, ai)[i] = a
                  /\ OrderOf(vertex_buffers', z, ai)[j] = b ) => i < j

ScenarioA ==
    \A a \in AllHandles, b \in AllHandles, z \in ZIndices, ai \in AtlasIndices :
      ( /\ areas_to_remove = << a >>
        /\ dirty_areas = << >>
        /\ OrderOf(vertex_buffers, z, ai) = << a, b >>
        /\ ResidentAt(a, z, ai, 0)
        /\ ResidentAt(b, z, ai, 1)
        /\ a \in DOMAIN ui_areas[z]
        /\ b \in DOMAIN ui_areas[z]
        /\ ZOf(AreaOf(a)) = z
        /\ AtlasOf(AreaOf(a)) = ai
        /\ render )
      => /\ panicked' = "no"
         /\ OrderOf(vertex_buffers', z, ai) = << b >>
         /\ AreaOfNext(b).buffer_offset = Some(0)

C7_SlotsInCreationOrder ==
    [][ /\ (panicked' = "no" /\ ~NewlyResidentAscending) => ~render
        /\ ScenarioA ]_vars

\* The first area is gone and the second is alone, at slot 0, in a buffer
\* whose capacity shows that it has held two areas.
C7_Witness ==
    /\ Synced
    /\ Len(issued) >= 2
    /\ issued[1] \notin AllHandles
    /\ \E z \in ZIndices, ai \in AtlasIndices :
         /\ OrderOf(vertex_buffers, z, ai) = << issued[2] >>
         /\ Unwrap(vertex_buffers[z][ai]).capacity = 2 * QuadBytes
         /\ ResidentAt(issued[2], z, ai, 0)

\* ------------------------------------------------------------------- C8
\* C8: remove_area(h) appends h to the removal queue and changes nothing
\* else, so area(h) returns what it returned before; and an area record
\* disappears, or a buffer or a recorded slot changes, only in a sync pass
\* (or in clear).
SameOffsets ==
    \A h \in AllHandles :
        h \in AllHandlesNext => AreaOfNext(h).buffer_offset = AreaOf(h).buffer_offset

C8_RemoveAreaOnlyEnqueues ==
    [][ /\ \A h \in IssuedHandles :
             remove_area(h) =>
               /\ areas_to_remove' = Append(areas_to_remove, h)
               /\ ui_areas' = ui_areas
               /\ vertex_buffers' = vertex_buffers
               /\ dirty_areas' = dirty_areas
               /\ area_result(ui_areas', h) = area_result(ui_areas, h)
        /\ \/ /\ AllHandles \subseteq AllHandlesNext
              /\ vertex_buffers' = vertex_buffers
              /\ SameOffsets
           \/ clear
           \/ render ]_vars

\* A removal is pending for an area that is still stored and resident.
C8_Witness ==
    /\ Running
    /\ \E h \in AllHandles :
         /\ Contains(areas_to_remove, h)
         /\ IsSome(AreaOf(h).buffer_offset)
         /\ area_result(ui_areas, h) = Some(AreaOf(h).area)

\* ------------------------------------------------------------------- C9
\* C9: area_mut(h) on a stored handle leaves h in the dirty set, whatever
\* the host writes; on a handle that is not stored it changes nothing; a
\* dirty handle stays dirty until a sync pass (or clear), and a completed
\* sync pass leaves the dirty set empty.
C9_AreaMutMarksDirty ==
    [][ /\ \A h \in AllHandles \cap AllHandlesNext :
             \* the step is area_mut(h) followed by any writes of the host
             area_mut(h, AreaOfNext(h).area) =>
               /\ Contains(dirty_areas', h)
               /\ \A d \in IssuedHandles :
                    Contains(dirty_areas, d) => Contains(dirty_areas', d)
        /\ \A h \in HandleInputs \ AllHandles, a \in AreaInputs :
             area_mut(h, a) => UNCHANGED vars
        /\ \/ \A d \in IssuedHandles :
                 Contains(dirty_areas, d) => Contains(dirty_areas', d)
           \/ clear
           \/ render
        /\ (panicked' = "no" /\ dirty_areas' # << >>) => ~render ]_vars

\* A resident area is in the dirty set: area_mut has been called on it
\* since the last sync pass.
C9_Witness ==
    /\ Running
    /\ \E h \in AllHandles :
         /\ IsSome(AreaOf(h).buffer_offset)
         /\ Contains(dirty_areas, h)

\* ------------------------------------------------------------------ C10
\* C10: a sync pass that completes with h in the removal queue leaves h
\* without an area record and in no slot of any buffer, and leaves the
\* removal queue and the dirty set empty.
C10_RemovalsBeforeDirty ==
    [][ \A h \in IssuedHandles :
          ( /\ panicked' = "no"
            /\ Contains(areas_to_remove, h)
            /\ render )
          => /\ h \notin AllHandlesNext
             /\ SlotCount(vertex_buffers', h) = 0
             /\ areas_to_remove' = << >>
             /\ dirty_areas' = << >> ]_vars

\* ------------------------------------------------------------------ C11
\* Pointer pixels: over the transparent part of the first rectangle, over
\* its opaque part and the transparent part of the second, over the opaque
\* parts of both, over the second only, and over neither.
PointerPositions ==
    { << 5, 5 >>, << 20, 30 >>, << 30, 40 >>, << 70, 70 >>, << 100, 100 >> }

\* The area has a slot, and its own quad is opaque at the pixel.
OpaqueAt(h, pos) ==
    /\ h \in AllHandles
    /\ IsSome(AreaOf(h).buffer_offset)
    /\ fragment_id(vertices(AreaOf(h).area, h), AtlasOf(AreaOf(h)) - 1, pos) # ZeroId

\* h is drawn before g in the order z-level, atlas layer, slot.
DrawnBefore(h, g) ==
    LET a == AreaOf(h)
        b == AreaOf(g)
    IN  \/ ZOf(a) < ZOf(b)
        \/ ZOf(a) = ZOf(b) /\ AtlasOf(a) < AtlasOf(b)
        \/ ZOf(a) = ZOf(b) /\ AtlasOf(a) = AtlasOf(b)
             /\ Unwrap(a.buffer_offset) < Unwrap(b.buffer_offset)

\* C11: after a sync pass, for every pointer pixel, the picked id is 0 when
\* no resident area is opaque at the pixel and otherwise the handle of a
\* resident area that is opaque there and that no other such area is drawn
\* after; and the picking pass issues the draws of the visible pass in the
\* same order.
C11_PickingTopmostOpaque ==
    Synced =>
        /\ picker_pass_draws(vertex_buffers) = render_pass_draws(vertex_buffers)
        /\ \A pos \in PointerPositions :
             LET hit == { h \in AllHandles : OpaqueAt(h, pos) }
                 id == picked_id(vertex_buffers, pos)
             IN  IF hit = { } THEN id = ZeroId
                 ELSE /\ id \in hit
                      /\ \A g \in hit : ~DrawnBefore(id, g)

\* ------------------------------------------------------------------ C12
\* The hovered area an id stands for.
Resolution(id) == IF id = ZeroId THEN None ELSE Some(id)

\* C12: a render call, also one whose sync pass then panics, leaves the pick
\* channel empty; when ids had arrived (those in the channel, and the one of
\* a mapping that completes in the call's poll) the hovered area becomes the
\* resolution of the one that arrived last, and when none had arrived it
\* keeps its value.
C12_DrainKeepsLastId ==
    [][ render =>
          /\ channel' = << >>
          /\ LET arrived == IF map_pending THEN channel \o << staging_buffer >>
                            ELSE channel
             IN  IF arrived = << >>
                 THEN cursor_picking_result' = cursor_picking_result
                 ELSE cursor_picking_result' = Resolution(arrived[Len(arrived)]) ]_all_vars

\* A hovered area has been resolved, and two different ids wait in the channel.
C12_Witness ==
    /\ IsSome(cursor_picking_result)
    /\ Len(channel) = 2
    /\ channel[1] # channel[2]
    /\ channel[2] # ZeroId

\* ------------------------------------------------------------------ C13
\* C13: in the frame loop render, submit, post_render_work, after each render
\* call the hovered area is the resolution of the id that the commands of
\* the previous frame pick (its buffers and pointer position as synced by
\* that frame's render call), and none after the first render call.
C13_HoverLagsOneFrame ==
    [][ (frame_phase = "render" /\ render /\ panicked' = "no") =>
          cursor_picking_result' =
              IF IsSome(picked_by_frame) THEN Resolution(Unwrap(picked_by_frame))
              ELSE None ]_all_vars

\* A render call has returned with the hovered area of the frame before,
\* while its own commands pick another id.
C13_Witness ==
    /\ frame_phase = "submit"
    /\ IsSome(cursor_picking_result)
    /\ IsSome(command_buffer)
    /\ Resolution(Unwrap(command_buffer)) # cursor_picking_result

\* ------------------------------------------------------------------ C14
\* C14: a step of the mapping callback appends one id, the staging buffer's,
\* to the channel and changes nothing of the areas, buffers, dirty set,
\* removal queue or cursor fields; and the hovered area changes only in a
\* render call.
C14_CallbackOnlySends ==
    [][ /\ map_callback =>
              /\ channel' = channel \o << staging_buffer >>
              /\ UNCHANGED << vars, cursor_vars, staging_buffer, host_vars, asset_vars >>
        /\ cursor_picking_result' # cursor_picking_result => render ]_all_vars

\* The callback has sent an id that differs from the hovered area, which is
\* as the last render call left it.
C14_Witness ==
    /\ Running
    /\ ~map_pending
    /\ channel # << >>
    /\ IsSome(cursor_picking_result)
    /\ Resolution(channel[Len(channel)]) # cursor_picking_result

\* ------------------------------------------------------------------ C15
\* C15 as claimed: update_cursor_position only buffers the position, and a
\* render call uploads the buffered position only when it differs from the
\* position uploaded last.
C15_UploadOnlyWhenChanged ==
    [][ /\ \A pos \in CursorPositions :
             update_cursor_position(pos[1], pos[2]) =>
               /\ cursor_pos_uniform' = pos
               /\ cursor_pos_uniform_buffer' = cursor_pos_uniform_buffer
        /\ render =>
             /\ cursor_pos_uniform_buffer' = cursor_pos_uniform
             /\ cursor_uploaded' <=> cursor_pos_uniform # cursor_pos_uniform_buffer ]_all_vars

\* C15 amended: update_cursor_position only buffers the position (the last
\* call wins); the uniform buffer changes only in a render call; a render
\* call uploads exactly when update_cursor_position was called since the
\* previous render call, also with the position it already holds, and then
\* the buffer holds the last position passed; it uploads at most once per
\* call of update_cursor_position.
C15_UploadOnlyWhenMoved ==
    [][ /\ \A pos \in CursorPositions :
             update_cursor_position(pos[1], pos[2]) =>
               /\ cursor_pos_uniform' = pos
               /\ cursor_moved'
               /\ cursor_pos_uniform_buffer' = cursor_pos_uniform_buffer
        /\ cursor_pos_uniform_buffer' # cursor_pos_uniform_buffer => render
        /\ render =>
             /\ cursor_uploaded' <=> cursor_moved
             /\ cursor_pos_uniform_buffer' = cursor_pos_uniform
             /\ ~cursor_moved' ]_all_vars

\* A render call has uploaded the position passed last and cleared the flag.
C15_Witness ==
    /\ cursor_uploaded
    /\ cursor_pos_uniform_buffer = << 70, 70 >>
    /\ ~cursor_moved
    /\ IsSome(command_buffer)

\* ------------------------------------------------------------------ C16
SpriteRegistrations == { "add_inanimate_sprite", "add_animated_sprite", "add_sprite" }

\* The registration calls k of the history that were made on the builder.
OnBuilder(k) == registrations[k].op # "add_sprite"

\* The last registration call has ended the program with a panic.
LastCallFatal ==
    IF OnBuilder(Len(registrations))
    THEN builder_panicked = registrations[Len(registrations)].op
    ELSE \A r \in Runs : stgi_runs[r].panicked \in { "add_sprite", "add_sprite recursion" }

\* The image registered under the identifier of registration call k.
RegisteredImage(k) ==
    LET id == registrations[k].id
    IN  IF OnBuilder(k)
        THEN IF id \notin DOMAIN sprites THEN None
             ELSE IF sprites[id].kind = "Inanimate" THEN Some(sprites[id].sprite)
             ELSE Some(sprites[id].sprite_sheet)
        ELSE IF \E r \in Runs : id \notin DOMAIN stgi_runs[r].stored_sprites THEN None
             ELSE Some(stgi_runs[1].stored_sprites[id].image)

\* C16: when a sprite identifier is registered a second time, with whichever
\* of add_inanimate_sprite, add_animated_sprite and add_sprite, the second
\* call is the last one (it panics), and the identifier still stands for the
\* image registered first.
C16_DuplicateSpriteIdFatal ==
    \A j \in 1..Len(registrations) : \A i \in 1..(j - 1) :
        ( /\ registrations[i].op \in SpriteRegistrations
          /\ registrations[j].op \in SpriteRegistrations
          /\ OnBuilder(i) = OnBuilder(j)
          /\ registrations[i].id = registrations[j].id )
        => /\ j = Len(registrations)
           /\ LastCallFatal
           /\ RegisteredImage(i) = Some(registrations[i].image)

\* ------------------------------------------------------------------ C17
\* C17: when add_font is called with an identifier that a font was already
\* registered under, the call is the last one (it panics), and the
\* identifier still stands for the font registered first.
C17_DuplicateFontIdFatal ==
    \A j \in 1..Len(registrations) : \A i \in 1..(j - 1) :
        ( /\ registrations[i].op = "add_font"
          /\ registrations[j].op = "add_font"
          /\ registrations[i].id = registrations[j].id )
        => /\ j = Len(registrations)
           /\ builder_panicked = "add_font"
           /\ registrations[i].id \in DOMAIN fonts
           /\ fonts[registrations[i].id] = registrations[i].image

\* ------------------------------------------------------------------ C18
\* The frames of the registered sprites, as << id, frame index >>.
RegisteredFrames ==
    UNION { { << id, k >> : k \in 1..Len(frames_of(sprites[id])) } : id \in DOMAIN sprites }

FrameOf(f) == frames_of(sprites[f[1]])[f[2]]

OverLimit(f) ==
    \/ FrameOf(f)[1] > max_texture_dimension_2d
    \/ FrameOf(f)[2] > max_texture_dimension_2d

\* C18: build panics in the packing exactly when a frame of a registered
\* sprite is wider or higher than the device's maximum texture dimension;
\* otherwise every frame is placed, none is left out, in a rectangle of the
\* frame's size that lies inside its atlas layer, and no layer is larger
\* than the device allows.
C18_OverLimitFrameFatal ==
    [][ build =>
          /\ builder_panicked' = "create_atlas" <=> \E f \in RegisteredFrames : OverLimit(f)
          /\ ( RegisteredFrames # { } /\ \A f \in RegisteredFrames : ~OverLimit(f) )
                => IsSome(build_result')
          /\ IsSome(build_result') =>
               LET packed == Unwrap(build_result')
               IN  /\ DOMAIN packed.sprites = DOMAIN sprites
                   /\ \A id \in DOMAIN sprites :
                         Len(packed.sprites[id]) = Len(frames_of(sprites[id]))
                   /\ \A f \in RegisteredFrames :
                         LET placed == packed.sprites[f[1]][f[2]]
                             rect == placed[2]
                         IN  /\ placed[1] + 1 \in 1..Len(packed.allocators)
                             /\ rect.min_x >= 0 /\ rect.min_y >= 0
                             /\ rect.max_x - rect.min_x = FrameOf(f)[1]
                             /\ rect.max_y - rect.min_y = FrameOf(f)[2]
                             /\ rect.max_x <= packed.allocators[placed[1] + 1].size
                             /\ rect.max_y <= packed.allocators[placed[1] + 1].size
                   /\ \A i \in 1..Len(packed.allocators) :
                         packed.allocators[i].size <= max_texture_dimension_2d ]_all_vars

\* build has panicked in the packing over a frame above the limit, while
\* another registered sprite has a frame as wide as the limit allows.
C18_Witness ==
    /\ builder_panicked = "create_atlas"
    /\ \E f \in RegisteredFrames : OverLimit(f)
    /\ \E f \in RegisteredFrames : FrameOf(f)[1] = max_texture_dimension_2d

\* ------------------------------------------------------------------ C19
\* C19: a clear call leaves no area (area and area_mut find none of the
\* handles issued before), no instance buffer, an empty dirty set and an
\* empty removal queue, and changes nothing else: the handle counter, the
\* number of atlas layers the buffers are kept for, the registered sprites
\* and the picking state stay; and every add_area, also after a clear,
\* returns a handle greater than all handles returned before.
C19_ClearRemovesAreasOnly ==
    [][ /\ clear =>
              /\ \A handle \in IssuedHandles :
                    /\ area_result(ui_areas', handle) = None
                    /\ find_map(ui_areas', handle) = 0
              /\ \A z \in DOMAIN vertex_buffers' :
                    /\ Len(vertex_buffers'[z]) = NumAtlases
                    /\ \A ai \in 1..NumAtlases : vertex_buffers'[z][ai] = None
              /\ Len(vertex_buffers') = Len(ZOrder)
              /\ dirty_areas' = << >>
              /\ areas_to_remove' = << >>
              /\ next_id' = next_id
              /\ UNCHANGED << issued, panicked, pick_vars, asset_vars >>
        /\ Len(issued') > Len(issued) =>
              /\ \A i \in 1..Len(issued) : HandleLt(issued[i], issued'[Len(issued')])
              /\ issued'[Len(issued')] = next_id ]_vars

\* After areas were added and cleared, an area added later is the only one.
C19_Witness ==
    /\ Running
    /\ Len(issued) = 3
    /\ DOMAIN ui_areas[1] \cup DOMAIN ui_areas[2] \cup DOMAIN ui_areas[3]
         \cup DOMAIN ui_areas[4] = { issued[3] }
    /\ \A z \in 1..Len(ZOrder) : \A ai \in 1..NumAtlases : vertex_buffers[z][ai] = None
    /\ area_result(ui_areas, issued[1]) = None
    /\ HandleLt(issued[2], issued[3])

\* ------------------------------------------------------------------ C20
\* C20: two runs that were given the same add_sprite calls in the same order
\* hold every sprite in the same atlas layer and in the same rectangle, and
\* have atlas layers of the same sizes.
C20_PackingDeterministic ==
    \A r1, r2 \in Runs :
        /\ DOMAIN stgi_runs[r1].stored_sprites = DOMAIN stgi_runs[r2].stored_sprites
        /\ \A id \in DOMAIN stgi_runs[r1].stored_sprites :
              /\ stgi_runs[r1].stored_sprites[id].atlas_index
                   = stgi_runs[r2].stored_sprites[id].atlas_index
              /\ stgi_runs[r1].stored_sprites[id].allocation
                   = stgi_runs[r2].stored_sprites[id].allocation
        /\ Len(stgi_runs[r1].atlases) = Len(stgi_runs[r2].atlases)
        /\ \A i \in 1..Len(stgi_runs[r1].atlases) :
              stgi_runs[r1].atlases[i].size = stgi_runs[r2].atlases[i].size

\* ------------------------------------------------------------------ C22
\* The handles that occupy a slot of some buffer.
InSomeSlot(vb) ==
    UNION { { OrderOf(vb, z, ai)[i] : i \in 1..Len(OrderOf(vb, z, ai)) } :
              << z, ai >> \in ZIndices \X AtlasIndices }

\* C22: a sync pass that completes, with nothing dirty but a removal queue that
\* names an area h that occupies a slot, leaves h in no slot of any buffer,
\* and every other area that occupied a slot still occupies one; this also
\* when h's z-level or sprite was changed after the last sync.
C22_RemovalFreesActualSlot ==
    [][ \A h \in IssuedHandles :
          ( /\ panicked' = "no"
            /\ areas_to_remove = << h >>
            /\ h \in InSomeSlot(vertex_buffers)
            /\ h \in AllHandles
            /\ \A d \in AllHandles \ { h } : ~Contains(dirty_areas, d)
            /\ render )
          => /\ h \notin InSomeSlot(vertex_buffers')
             /\ InSomeSlot(vertex_buffers) \ { h } \subseteq InSomeSlot(vertex_buffers') ]_vars

\* ------------------------------------------------------------------ C23
\* C23: after a sync pass every area's recorded last-synced z-level is its
\* current z-level.
C23_OldZIsSyncedZ ==
    Synced => \A h \in AllHandles : AreaOf(h).old_z = AreaOf(h).area.z

\* ------------------------------------------------------------------ C24
\* C24: no sync pass ends in a panic, whatever add_area, area_mut,
\* remove_area, clear and render calls came before.
C24_SyncNeverPanics == panicked # "render"

\* ------------------------------------------------------------------ C25
\* The list is strictly ascending by handle (so it has no duplicates).
StrictlyAscending(v) == \A i, j \in 1..Len(v) : i < j => HandleLt(v[i], v[j])

\* C25: after every step the dirty set is strictly ascending by handle, and
\* a sync pass that completes leaves it empty.
C25_DirtySetSortedDeduplicated ==
    [][ /\ StrictlyAscending(dirty_areas')
        /\ (panicked' = "no" /\ render) => dirty_areas' = << >> ]_vars

\* An area that was synced before is dirty again, in front of a younger area
\* that was never synced.
C25_Witness ==
    /\ Len(dirty_areas) = 2
    /\ dirty_areas[1] \in AllHandles /\ dirty_areas[2] \in AllHandles
    /\ IsSome(AreaOf(dirty_areas[1]).buffer_offset)
    /\ ~IsSome(AreaOf(dirty_areas[2]).buffer_offset)

\* ------------------------------------------------------------------ C26
\* C26: no handle is in the removal queue twice.
C26_RemovalQueueDeduplicated ==
    \A i, j \in 1..Len(areas_to_remove) :
        i # j => areas_to_remove[i] # areas_to_remove[j]

\* ------------------------------------------------------------------ C27
\* The states a sync pass goes through: before its first removal, after each
\* removal, and after each dirty handle.
RECURSIVE stages_after(_, _, _)
stages_after(st, queue, dirty) ==
    IF queue # << >>
    THEN << st >> \o stages_after(remove_one(st, Head(queue)), Tail(queue), dirty)
    ELSE IF dirty # << >>
    THEN << st >> \o stages_after(sync_one(st, Head(dirty)), << >>, Tail(dirty))
    ELSE << st >>

SyncStages ==
    stages_after([ ua |-> ui_areas, vb |-> vertex_buffers, ib |-> index_buffer_cpu,
                   sprites |-> stored_sprites,
                   atlases |-> [ i \in 1..NumAtlases |-> [ size |-> AtlasSize ] ],
                   err |-> FALSE ],
                 areas_to_remove, dirty_areas)

\* C27 as claimed: over any step, the capacity of a (z-level, atlas-layer)
\* buffer that exists before and after is not smaller afterwards.
C27_CapacityNeverDecreases ==
    [][ \A z \in ZIndices, ai \in AtlasIndices :
          (IsSome(vertex_buffers[z][ai]) /\ IsSome(vertex_buffers'[z][ai]))
          => Unwrap(vertex_buffers'[z][ai]).capacity
               >= Unwrap(vertex_buffers[z][ai]).capacity ]_vars

\* What one removal or one dirty handle of a sync pass may do to a buffer.
CapacityStep(before, after) ==
    IF ~IsSome(after)
    THEN ~IsSome(before) \/ Len(Unwrap(before).order) = 1
    ELSE /\ Unwrap(after).size <= Unwrap(after).capacity
         /\ IF ~IsSome(before)
            THEN /\ Unwrap(after).capacity = QuadBytes
                 /\ Len(Unwrap(after).order) = 1
            ELSE \/ Unwrap(after).capacity = Unwrap(before).capacity
                 \/ /\ Unwrap(after).capacity = 2 * Unwrap(before).capacity
                    /\ Unwrap(before).size + QuadBytes > Unwrap(before).capacity
                    /\ Len(Unwrap(after).order) = Len(Unwrap(before).order) + 1

\* C27 amended: while a buffer exists its capacity never decreases; it
\* changes only in an append that would exceed it, and then it doubles,
\* which is enough for the appended slot. A buffer is dropped when its only
\* occupant is removed, and by clear; the buffer created by the next append
\* to that z-level and atlas layer has the capacity of one slot again.
C27_CapacityDoublesWhileBufferExists ==
    [][ /\ render =>
              /\ \A k \in 1..(Len(SyncStages) - 1) :
                    \A z \in ZIndices, ai \in AtlasIndices :
                       CapacityStep(SyncStages[k].vb[z][ai], SyncStages[k + 1].vb[z][ai])
              /\ panicked' = "no" => vertex_buffers' = SyncStages[Len(SyncStages)].vb
        /\ \A z \in ZIndices, ai \in AtlasIndices :
              vertex_buffers'[z][ai] # vertex_buffers[z][ai]
              => render \/ (clear /\ vertex_buffers'[z][ai] = None) ]_vars

\* The two areas added first are gone, and the area added third is the only
\* occupant of a buffer of one slot's capacity.
C27_Witness ==
    /\ Synced
    /\ Len(issued) = 3
    /\ AllHandles = { issued[3] }
    /\ \E z \in ZIndices, ai \in AtlasIndices :
          /\ IsSome(vertex_buffers[z][ai])
          /\ Unwrap(vertex_buffers[z][ai]).order = << issued[3] >>
          /\ Unwrap(vertex_buffers[z][ai]).capacity = QuadBytes

\* ------------------------------------------------------------------ C28
\* The frames create_atlas packs, in its order.
RECURSIVE all_frames(_, _)
all_frames(areas, sprs) ==
    IF areas = << >> THEN << >>
    ELSE frames_of(sprs[areas[1][2]]) \o all_frames(Tail(areas), sprs)

PackedFrames(sorted) == all_frames(sorted, sprites)

\* The states create_atlas goes through: before its first frame and after
\* each frame; the allocations of all sprites are kept.
RECURSIVE pack_stages(_, _, _)
pack_stages(st, frames, max_texture_size) ==
    IF frames = << >> \/ st.err THEN << st >>
    ELSE << st >> \o pack_stages(pack_frame(st, frames[1][1], frames[1][2], max_texture_size),
                                 Tail(frames), max_texture_size)

PackStages(sorted) ==
    pack_stages([ allocators |-> << >>, atlas_size |-> 128, allocations |-> << >>,
                  sprites |-> EmptyMap, err |-> FALSE ],
                PackedFrames(sorted), max_texture_dimension_2d)

IsPowerOfTwo(n) == n \in { 2^k : k \in 0..30 }

\* C28: whatever the device's maximum texture dimension, every atlas layer
\* of the builder and of the running Stgi has a power-of-two side at all
\* times, and a layer that grows while a frame is packed grows by doublings.
C28_AtlasSidesPowerOfTwo ==
    /\ \A sorted \in sort_by_area(sprite_areas) :
          LET stages == PackStages(sorted)
          IN  \A k \in 1..Len(stages) :
                 \A i \in 1..Len(stages[k].allocators) :
                    /\ IsPowerOfTwo(stages[k].allocators[i].size)
                    /\ k > 1 /\ i <= Len(stages[k - 1].allocators)
                       => \E e \in 0..9 : stages[k].allocators[i].size
                                            = stages[k - 1].allocators[i].size * 2^e
    /\ \A r \in Runs :
          \A i \in 1..Len(stgi_runs[r].atlases) :
             IsPowerOfTwo(stgi_runs[r].atlases[i].size)

\* ------------------------------------------------------------------ C29
Overlap(r1, r2) ==
    /\ r1.min_x < r2.max_x /\ r2.min_x < r1.max_x
    /\ r1.min_y < r2.max_y /\ r2.min_y < r1.max_y

\* What packing one frame may do.
FallbackStep(before, after, frame, max_texture_size) ==
    LET A == before.allocators
        B == after.allocators
        n == Len(A)
        taking == { i \in 1..n : IsSome(allocate(A[i], frame[1], frame[2])) }
        placed == after.allocations[Len(after.allocations)]
        ceiling == Min(max_texture_size, 65536)
    IN  \/ after.err
        \/ /\ Len(after.allocations) = Len(before.allocations) + 1
           /\ SubSeq(after.allocations, 1, Len(before.allocations)) = before.allocations
           /\ placed[2].max_x - placed[2].min_x = frame[1]
           /\ placed[2].max_y - placed[2].min_y = frame[2]
           /\ placed[2].min_x >= 0 /\ placed[2].min_y >= 0
           /\ placed[2].max_x <= B[placed[1] + 1].size
           /\ placed[2].max_y <= B[placed[1] + 1].size
           /\ \A j \in 1..Len(before.allocations) :
                 before.allocations[j][1] = placed[1]
                 => ~Overlap(before.allocations[j][2], placed[2])
           /\ IF taking # { }
              THEN /\ placed[1] + 1 \in taking
                   /\ \A j \in taking : placed[1] + 1 <= j
                   /\ Len(B) = n
                   /\ \A i \in 1..n : B[i].size = A[i].size
              ELSE IF Len(B) = n
              THEN /\ n > 0
                   /\ placed[1] = n - 1
                   /\ B[n].size > A[n].size
                   /\ B[n].size <= ceiling
                   /\ \A i \in 1..(n - 1) : B[i].size = A[i].size
              ELSE /\ Len(B) = n + 1
                   /\ placed[1] = n
                   /\ B[n + 1].size >= Max(frame[1], frame[2])
                   /\ \A i \in 1..(n - 1) : B[i].size = A[i].size
                   /\ n > 0 => /\ B[n].size = ceiling
                               /\ ~IsSome(allocate(B[n], frame[1], frame[2]))

\* The allocations of the sprites, one sprite after the other.
RECURSIVE flattened(_, _)
flattened(areas, packed_sprites) ==
    IF areas = << >> THEN << >>
    ELSE packed_sprites[areas[1][2]] \o flattened(Tail(areas), packed_sprites)

\* C29: each frame, in order, goes into the lowest-index layer with room;
\* if there is none the last layer is grown, up to the device maximum and
\* 65536, and takes the frame; if it cannot, a new layer with a side at
\* least the frame's larger dimension takes it. Rectangles placed earlier
\* keep their layer and position and are not overlapped. build returns the
\* layers and rectangles of the last stage.
C29_FallbackChain ==
    [][ \A sorted \in sort_by_area(sprite_areas) :
           LET stages == PackStages(sorted)
           IN  /\ \A k \in 1..(Len(stages) - 1) :
                     FallbackStep(stages[k], stages[k + 1], PackedFrames(sorted)[k],
                                  max_texture_dimension_2d)
               /\ (~IsSome(build_result) /\ IsSome(build_result') /\ sprite_areas' = sorted)
                  => /\ Unwrap(build_result').allocators = stages[Len(stages)].allocators
                     /\ flattened(sorted, Unwrap(build_result').sprites)
                          = stages[Len(stages)].allocations ]_all_vars

\* build has packed a frame while two layers had room for it, into the
\* first of them.
C29_Witness ==
    /\ IsSome(build_result)
    /\ LET stages == PackStages(sprite_areas)
           frames == PackedFrames(sprite_areas)
       IN  /\ Unwrap(build_result).allocators = stages[Len(stages)].allocators
           /\ \E k \in 1..(Len(stages) - 1) :
                 /\ Len(stages[k].allocators) = 2
                 /\ \A i \in 1..2 :
                       IsSome(allocate(stages[k].allocators[i], frames[k][1], frames[k][2]))
                 /\ stages[k + 1].allocations[Len(stages[k + 1].allocations)][1] = 0

\* ------------------------------------------------------------------ C30
FrameCount(sprite) ==
    IF sprite.kind = "Inanimate" THEN 1
    ELSE sprite.sprite_sheet.width \div sprite.sprite_width

\* C30: after build, the sprite with index i has the offset table entry
\* [offset_i, count_i] with count_i its number of frames, offset_0 = 0 and
\* offset_{i+1} = offset_i + count_i; the ranges cover the allocation table,
\* and entry offset_i + f is the layer and the rectangle of frame f.
C30_OffsetTableMatchesAllocations ==
    [][ (~IsSome(build_result) /\ IsSome(build_result'))
        => LET b == Unwrap(build_result')
               n == Cardinality(DOMAIN sprites)
               atlas_size == Unwrap(max_dimension(b.allocators))
           IN  /\ DOMAIN b.sprite_indices = DOMAIN sprites
               /\ { b.sprite_indices[id] : id \in DOMAIN sprites } = 0..(n - 1)
               /\ Len(b.offset_table) = n
               /\ n > 0
               /\ Len(b.allocation_table)
                    = b.offset_table[n][1] + b.offset_table[n][2]
               /\ \A id \in DOMAIN sprites :
                     LET i == b.sprite_indices[id]
                         entry == b.offset_table[i + 1]
                     IN  /\ entry[2] = FrameCount(sprites[id])
                         /\ entry[1] = IF i = 0 THEN 0
                                       ELSE b.offset_table[i][1] + b.offset_table[i][2]
                         /\ \A f \in 0..(entry[2] - 1) :
                               LET a == b.allocation_table[entry[1] + f + 1]
                                   rect == b.sprites[id][f + 1][2]
                               IN  /\ a.atlas_index = b.sprites[id][f + 1][1]
                                   /\ a.x_min = << rect.min_x, atlas_size >>
                                   /\ a.x_max = << rect.max_x, atlas_size >>
                                   /\ a.y_min = << rect.min_y, atlas_size >>
                                   /\ a.y_max = << rect.max_y, atlas_size >>
                                   /\ rect.max_x - rect.min_x = frames_of(sprites[id])[f + 1][1]
                                   /\ rect.max_y - rect.min_y = frames_of(sprites[id])[f + 1][2]
      ]_all_vars

\* build has made the tables of two sprites; the sprite with index 0 has
\* several frames, so the other one's range starts behind them.
C30_Witness ==
    /\ IsSome(build_result)
    /\ Len(Unwrap(build_result).offset_table) = 2
    /\ Unwrap(build_result).offset_table[1][2] >= 2
    /\ Unwrap(build_result).offset_table[2] = << Unwrap(build_result).offset_table[1][2], 1 >>
    /\ Len(Unwrap(build_result).allocation_table) >= 3

\* ------------------------------------------------------------------ C21
GlyphLayers(t) == 1..Len(t.atlas_allocators)

\* C21: build creates ceil(texel budget / layer area) glyph layers whose side
\* is the largest the renderer uses (the device maximum, at most 16384);
\* afterwards the number of layers and their sides never change and no
\* cached glyph is dropped or moved. Rasterizing a visible glyph that is not
\* cached places it in the lowest-index layer with room and caches it; when
\* no layer has room the call is fatal and changes nothing.
C21_GlyphAtlasFixedAndFatal ==
    [][ /\ (~IsSome(text_renderer) /\ IsSome(text_renderer'))
           => LET t == Unwrap(text_renderer')
                  side == Min(max_texture_dimension_2d, 16384)
                  n == Len(t.atlas_allocators)
              IN  /\ n * (side * side) >= AtlasArea
                  /\ (n - 1) * (side * side) < AtlasArea
                  /\ \A i \in GlyphLayers(t) : t.atlas_allocators[i].size = side
                  /\ t.rasterized_glyphs = EmptyMap
        /\ IsSome(text_renderer)
           => /\ IsSome(text_renderer')
              /\ GlyphLayers(Unwrap(text_renderer')) = GlyphLayers(Unwrap(text_renderer))
              /\ \A i \in GlyphLayers(Unwrap(text_renderer)) :
                    Unwrap(text_renderer').atlas_allocators[i].size
                      = Unwrap(text_renderer).atlas_allocators[i].size
              /\ \A key \in DOMAIN Unwrap(text_renderer).rasterized_glyphs :
                    /\ key \in DOMAIN Unwrap(text_renderer').rasterized_glyphs
                    /\ Unwrap(text_renderer').rasterized_glyphs[key]
                         = Unwrap(text_renderer).rasterized_glyphs[key]
        /\ \A font_id \in FontIdInputs, font_size \in FontSizeInputs, c \in CharInputs :
              ( /\ rasterize_glyph(font_id, font_size, c)
                /\ << font_id, font_size, c >>
                     \notin DOMAIN Unwrap(text_renderer).rasterized_glyphs
                /\ font_id \in DOMAIN Unwrap(text_renderer).fonts
                /\ rasterize(Unwrap(text_renderer).fonts[font_id], c, font_size).width > 0
                /\ rasterize(Unwrap(text_renderer).fonts[font_id], c, font_size).height > 0 )
              => LET t == Unwrap(text_renderer)
                     u == Unwrap(text_renderer')
                     key == << font_id, font_size, c >>
                     m == rasterize(t.fonts[font_id], c, font_size)
                     room == { i \in GlyphLayers(t) :
                                 IsSome(allocate(t.atlas_allocators[i],
                                                 m.width + 2, m.height + 2)) }
                 IN  IF room = { }
                     THEN text_panicked' = "Glyph atlas overflow" /\ u = t
                     ELSE /\ text_panicked' = "no"
                          /\ key \in DOMAIN u.rasterized_glyphs
                          /\ u.rasterized_glyphs[key].kind = "Visible"
                          /\ u.rasterized_glyphs[key].atlas_index + 1 \in room
                          /\ \A j \in room : u.rasterized_glyphs[key].atlas_index + 1 <= j
                          /\ u.rasterized_glyphs[key].allocation.max_x
                               - u.rasterized_glyphs[key].allocation.min_x = m.width + 2
                          /\ u.rasterized_glyphs[key].allocation.max_y
                               - u.rasterized_glyphs[key].allocation.min_y = m.height + 2
                          /\ u.rasterized_glyphs[key].allocation.max_x
                               <= t.atlas_allocators[1].size
                          /\ u.rasterized_glyphs[key].allocation.max_y
                               <= t.atlas_allocators[1].size
                          /\ \A i \in GlyphLayers(t) :
                                i # u.rasterized_glyphs[key].atlas_index + 1
                                => u.atlas_allocators[i] = t.atlas_allocators[i]
      ]_all_vars

\* Two layers; a glyph was placed in the second one because the first had
\* no room, and the next visible glyph found no room in either: the call was
\* fatal and both cached glyphs are still there.
C21_Witness ==
    /\ IsSome(text_renderer)
    /\ text_panicked = "Glyph atlas overflow"
    /\ Len(Unwrap(text_renderer).atlas_allocators) = 2
    /\ \E k1, k2 \in DOMAIN Unwrap(text_renderer).rasterized_glyphs :
          /\ Unwrap(text_renderer).rasterized_glyphs[k1].kind = "Visible"
          /\ Unwrap(text_renderer).rasterized_glyphs[k1].atlas_index = 0
          /\ Unwrap(text_renderer).rasterized_glyphs[k2].kind = "Visible"
          /\ Unwrap(text_renderer).rasterized_glyphs[k2].atlas_index = 1

\* ------------------------------------------------------------------ C31
\* C31: after build, the offset table gives every sprite the builder has
\* accepted at least one frame.
C31_EverySpriteHasAFrame ==
    IsSome(build_result)
    => \A i \in 1..Len(Unwrap(build_result).offset_table) :
          Unwrap(build_result).offset_table[i][2] >= 1

\* ------------------------------------------------------------------ C32
\* C32: no add_sprite call with an image of non-zero dimensions recurses or
\* appends atlas layers without bound: it stores the sprite or panics.
C32_AddSpriteTerminates ==
    \A r \in Runs : stgi_runs[r].panicked # "add_sprite recursion"

\* ------------------------------------------------------------------ C33
\* The stored sprites of a run that lie in atlas layer `layer` (0-based).
SpritesOfLayer(run, layer) ==
    { id \in DOMAIN run.stored_sprites : run.stored_sprites[id].atlas_index = layer }

\* What one add_sprite call that returns may do to a run; the sprite the
\* call stores is the one of the last registration.
IncrementalStep(before, after, max_size) ==
    LET n == Len(before.atlases)
        grown == n > 0 /\ after.atlases[n].size # before.atlases[n].size
    IN  /\ Len(after.vertex_buffers) = Len(ZOrder)
        /\ \A z \in 1..Len(ZOrder) : Len(after.vertex_buffers[z]) = Len(after.atlases)
        /\ Len(after.atlases) \in { n, n + 1 }
        /\ Len(after.atlases) = n + 1
           => /\ n = 0 \/ Min(after.atlases[n].size * 2, max_size) # after.atlases[n].size * 2
              /\ \A z \in 1..Len(ZOrder) :
                    after.vertex_buffers[z] = Append(before.vertex_buffers[z], None)
        /\ \A i \in 1..(n - 1) : after.atlases[i] = before.atlases[i]
        /\ \A id \in DOMAIN before.stored_sprites :
              /\ id \in DOMAIN after.stored_sprites
              /\ (before.stored_sprites[id].atlas_index # n - 1 \/ ~grown)
                 => \/ after.stored_sprites[id] = before.stored_sprites[id]
                    \/ registrations'[Len(registrations')].id = id
        /\ grown
           => /\ after.atlases[n].size >= 2 * before.atlases[n].size
              /\ \A id \in SpritesOfLayer(after, n - 1) :
                    LET sp == after.stored_sprites[id]
                    IN  /\ sp.allocation.max_x - sp.allocation.min_x = sp.width + 2
                        /\ sp.allocation.max_y - sp.allocation.min_y = sp.height + 2
                        /\ sp.allocation.min_x >= 0 /\ sp.allocation.min_y >= 0
                        /\ sp.allocation.max_x <= after.atlases[n].size
                        /\ sp.allocation.max_y <= after.atlases[n].size
                        /\ \A other \in SpritesOfLayer(after, n - 1) \ { id } :
                              ~Overlap(sp.allocation, after.stored_sprites[other].allocation)
              /\ SpritesOfLayer(before, n - 1) \ { registrations'[Len(registrations')].id }
                    \subseteq SpritesOfLayer(after, n - 1)

current_quad(run, a, handle) ==
    LET stored_sprite == run.stored_sprites[a.sprite]
        atlas_size == run.atlases[stored_sprite.atlas_index + 1].size
    IN  vertices_of(stored_sprite, atlas_size, a, handle)

\* C34: when every sprite identifier was added once, after a sync pass (no
\* handle is dirty) the quad staged for every area that has a slot is the
\* one derived from its sprite's current allocation and the current size of
\* its layer, also when add_sprite has grown the layer since the area was
\* last dirty. (A sync pass that starts with no dirty handle changes nothing,
\* so a state without dirty handles is the state after the next sync pass.)
C34_QuadsFollowRelocation ==
    ( \A i, j \in 1..Len(registrations) : i # j => registrations[i].id # registrations[j].id )
    => \A r \in Runs :
          ( stgi_runs[r].panicked = "no" /\ run_areas[r].dirty_areas = << >> )
          => \A handle \in RunHandles(r) :
                LET a == run_areas[r].ui_areas[find_map(run_areas[r].ui_areas, handle)][handle]
                    vb == stgi_runs[r].vertex_buffers
                IN  IsSome(a.buffer_offset)
                    => \E z \in 1..Len(vb) : \E ai \in 1..Len(vb[z]) :
                          /\ IsSome(vb[z][ai])
                          /\ \E i \in 1..Len(Unwrap(vb[z][ai]).order) :
                                /\ Unwrap(vb[z][ai]).order[i] = handle
                                /\ Unwrap(vb[z][ai]).staging[i]
                                     = current_quad(stgi_runs[r], a.area, handle)

\* ------------------------------------------------------------------ C39
\* C39: in every live instance buffer the slot-to-handle array and the
\* staged-quad array have the same length, the recorded byte size is that
\* length times the bytes of one quad, the size does not exceed the
\* capacity, and the buffer has an occupant.
C39_BufferBookkeeping ==
    \A z \in ZIndices, ai \in AtlasIndices :
       IsSome(vertex_buffers[z][ai])
       => LET b == Unwrap(vertex_buffers[z][ai])
          IN  /\ Len(b.order) = Len(b.staging)
              /\ b.size = Len(b.order) * QuadBytes
              /\ b.size <= b.capacity
              /\ Len(b.order) >= 1

\* After a removal and a sync pass: three areas were added, one is gone, and
\* the two that remain share one buffer.
C39_Witness ==
    /\ Synced
    /\ Len(issued) = 3
    /\ Cardinality(AllHandles) = 2
    /\ \E z \in ZIndices, ai \in AtlasIndices :
          /\ IsSome(vertex_buffers[z][ai])
          /\ Len(Unwrap(vertex_buffers[z][ai]).order) = 2
          /\ Unwrap(vertex_buffers[z][ai]).size = 2 * QuadBytes

\* The largest number of quads an instance buffer holds.
LargestOccupancy ==
    LET lens == { IF IsSome(vertex_buffers[z][ai])
                  THEN Len(Unwrap(vertex_buffers[z][ai]).staging) ELSE 0 :
                  z \in ZIndices, ai \in AtlasIndices }
    IN  CHOOSE n \in lens : \A m \in lens : m <= n

\* Entry group i of the index buffer is (4i, 4i+1, 4i+2, 4i+3, restart).
IndexGroups(ib) ==
    /\ Len(ib) % 5 = 0
    /\ { i \in 0..(Len(ib) \div 5 - 1) :
            SubSeq(ib, 5 * i + 1, 5 * i + 5)
              = << 4 * i, 4 * i + 1, 4 * i + 2, 4 * i + 3, RestartIndex >> }
         = 0..(Len(ib) \div 5 - 1)

\* The first of len, 2 len, 4 len, .. that is at least `need`.
RECURSIVE doubled_until(_, _)
doubled_until(len, need) ==
    IF need <= len THEN len ELSE doubled_until(2 * len, need)

\* C40: the index buffer starts with InitialQuads groups; after every sync
\* pass it holds at least 5 indices per slot of the fullest instance buffer,
\* its quad count is the old one doubled until that is so (unchanged when
\* it already was), and group i is (4i, 4i+1, 4i+2, 4i+3, restart marker).
C40_IndexBufferCoversFullestBuffer ==
    [][ /\ IndexGroups(index_values(index_buffer_cpu'))
        /\ Len(index_values(index_buffer_cpu')) >= 5 * LargestOccupancy'
        /\ Len(index_values(index_buffer_cpu)) >= 5 * InitialQuads
        /\ Len(index_values(index_buffer_cpu')) =
             doubled_until(Len(index_values(index_buffer_cpu)),
                           5 * LargestOccupancy') ]_vars

\* A sync pass has appended quad InitialQuads + 1 to a buffer and the index
\* buffer has doubled.
C40_Witness ==
    /\ panicked = "no"
    /\ LargestOccupancy > InitialQuads
    /\ Len(index_values(index_buffer_cpu)) = 2 * 5 * InitialQuads

\* C35: in the frame loop, a handle that is absent from the store when render
\* call k returns (its sync applied remove_area(h), or h was cleared or
\* removed before) is never returned by currently_hovered_area from the
\* return of render call k+1 on. The hovered area after a render call is the
\* resolution of the id the frame before picked, so this is: every render
\* call sets the hovered area to what the previous frame picked, no frame
\* picks a handle that is absent after its sync, and an absent handle stays
\* absent.
C35_RemovedHandleNotHovered ==
    [][ /\ (frame_phase = "render" /\ render /\ panicked' = "no") =>
             /\ cursor_picking_result' =
                    IF IsSome(picked_by_frame) THEN Resolution(Unwrap(picked_by_frame))
                    ELSE None
             /\ \A h \in IssuedHandles :
                    h \notin AllHandlesNext => Resolution(render_result) # Some(h)
        /\ \A h \in IssuedHandles : h \notin AllHandles => h \notin AllHandlesNext
      ]_all_vars

\* C36: in the frame loop the staging buffer has no mapping pending and the
\* channel is empty when the host submits and when post_render_work requests
\* the mapping, so the submit is valid and the request succeeds; when the
\* next render call polls, exactly one id has arrived or arrives, the one
\* the submitted commands copied to the staging buffer, and before the first
\* cycle none.
C36_OneIdPerCycle ==
    /\ frame_phase \in { "submit", "post_render_work" } =>
          ~map_pending /\ channel = << >>
    /\ frame_phase = "render" =>
          poll_wait(channel, map_pending, staging_buffer) =
              IF IsSome(picked_by_frame) THEN << Unwrap(picked_by_frame) >> ELSE << >>

\* A cycle is complete and its callback has sent the id of an area before
\* the next render call.
C36_Witness ==
    /\ frame_phase = "render"
    /\ IsSome(picked_by_frame)
    /\ ~map_pending
    /\ Len(channel) = 1
    /\ channel[1] # ZeroId

\* ------------------------------------------------------------------ C37
\* The glyphs of the areas of a list that count for z-level z of renderer u:
\* (i, k) for character k of area i when the area is enabled, has a text and
\* has this z-level, and the character's cached glyph is visible.
VisibleGlyphs(u, list, z) ==
    { ik \in (1..Len(list)) \X (1..(InitialGlyphQuads + 1)) :
        LET ta == list[ik[1]]
        IN  /\ ta.enabled
            /\ IsSome(ta.text)
            /\ to_usize(ta.z) + 1 = z
            /\ ik[2] <= Len(Unwrap(ta.text).text)
            /\ u.rasterized_glyphs[<< Unwrap(ta.text).font, Unwrap(ta.text).size,
                                      Unwrap(ta.text).text[ik[2]] >>].kind = "Visible" }

\* Where LayoutSettings { x: x_min, y: y_min, max_width, max_height, Center,
\* Middle, Word, wrap_hard_breaks } puts the visible glyphs of an area of
\* these runs, worked out by hand for 16 px characters:
\*   "a W" in (0..32) x (0..64): 48 px do not fit 32, so "W" goes to a
\*     second line; a 16 px line is centred in 32 px at x = 8, and two
\*     lines of 16 px are centred in 64 px from y = 16 on;
\*   "a", line feed, "W" in (10..74) x (20..84): the line feed ends the
\*     first line; a 16 px line is centred in 64 px at x = 10 + 24, and two
\*     lines of 16 px are centred in 64 px from y = 20 + 16 on.
ExpectedPositions(ta) ==
    IF ta.rect = << 0, 32, 0, 64 >> /\ Unwrap(ta.text).text = << "a", " ", "W" >>
    THEN { << 8, 16 >>, << 8, 32 >> }
    ELSE IF ta.rect = << 10, 74, 20, 84 >>
            /\ Unwrap(ta.text).text = << "a", "\n", "W" >>
    THEN { << 34, 36 >>, << 34, 52 >> }
    ELSE { }

\* C37: after an update that returns, the vertex buffer of each z-level
\* holds one quad for every visible glyph of the enabled areas with a text
\* of that z-level passed to this update, under the area's handle and at the
\* glyph's position, and nothing else; len is the number of these quads.
C37_TextBuffersRebuilt ==
    [][ \A list \in TextAreaLists :
          (text_panicked' = "no" /\ update(WithHandles(list))) =>
              LET u == Unwrap(text_renderer')
              IN  \A z \in 1..Len(ZOrder) :
                     LET b == u.vertex_buffers[z]
                         expected == VisibleGlyphs(u, list, z)
                     IN  /\ b.len = Cardinality(expected)
                         /\ Len(b.staging) = b.len
                         /\ { << b.staging[q][1].area_id, b.staging[q][1].pos >> :
                                q \in 1..Len(b.staging) }
                              = UNION { { << << 0, i >>, pos >> :
                                            pos \in ExpectedPositions(list[i]) } :
                                          i \in { ik[1] : ik \in expected } }
                         /\ \A q \in 1..Len(b.staging), v \in 1..4 :
                                b.staging[q][v].area_id = b.staging[q][1].area_id
      ]_all_vars

\* An update has returned with the four visible glyphs of two areas at the
\* first z-level, one whose text was broken at its space and one whose
\* text holds a line feed, the space and the line feed cached as invisible,
\* and with no quad at the other z-levels.
C37_Witness ==
    /\ IsSome(text_renderer)
    /\ text_panicked = "no"
    /\ LET b == Unwrap(text_renderer).vertex_buffers[1]
       IN  /\ b.len = 4
           /\ { b.staging[q][1].pos : q \in 1..Len(b.staging) }
                = { << 8, 16 >>, << 8, 32 >>, << 34, 36 >>, << 34, 52 >> }
    /\ \A z \in 2..Len(ZOrder) : Unwrap(text_renderer).vertex_buffers[z].len = 0
    /\ \E key, feed \in DOMAIN Unwrap(text_renderer).rasterized_glyphs :
          /\ key[3] = " " /\ feed[3] = "\n"
          /\ Unwrap(text_renderer).rasterized_glyphs[key].kind = "Invisible"
          /\ Unwrap(text_renderer).rasterized_glyphs[feed].kind = "Invisible"

\* ------------------------------------------------------------------ C38
\* C38: the GPU buffer of every z-level's text vertex buffer is at least as
\* large as the quads staged for it (4 glyph vertices each), and never
\* smaller than the buffer of InitialGlyphQuads quads it starts with.
C38_TextBufferHoldsStaging ==
    IsSome(text_renderer) =>
        \A z \in 1..Len(ZOrder) :
            LET b == Unwrap(text_renderer).vertex_buffers[z]
            IN  /\ b.buffer >= Len(b.staging) * 4 * GlyphVertexBytes
                /\ b.buffer >= InitialGlyphQuads * 4 * GlyphVertexBytes

====
